---- MODULE Spec2Model ----
(***************************************************************************)
(* Model of the Cognos export parser: the ParseResult aggregator           *)
(* (core/models.py), the top-level CognosParser.parse pipeline with its    *)
(* per-document and per-object dispatch (cognos/parser.py), the outcome of *)
(* the per-kind extractors (cognos/extractors) and the cross-reference     *)
(* resolver _create_data_source_connections.                               *)
(***************************************************************************)
EXTENDS Integers, Sequences, FiniteSets, TLC

VARIABLES
    pc,        \* position of parse(): the stage about to run
    export,    \* the export given to parse(): documents and raw object nodes
    config,    \* CognosConfig of the parser instance
    result,    \* the ParseResult being accumulated
    docIdx,    \* index of the package document being parsed
    nodeIdx,   \* index of the next raw object node of that document
    temp_dir,  \* CognosParser.temp_dir
    fs,        \* directories existing on disk
    docs,      \* the package*.xml documents found by _parse_packages
    dsdoc,     \* dataSource.xml as read by _parse_data_sources
    stages,    \* history: the stages of parse() that have run, in order
    calls,     \* history: the objects passed to add_object, in order
    source,    \* the input handed to an extractor or routine run on its own
    extracted  \* what that extractor or routine has produced so far

vars == <<pc, export, config, result, docIdx, nodeIdx, temp_dir, fs, docs, dsdoc,
          stages, calls, source, extracted>>

(***************************************************************************)
(* Bounds of the model.                                                    *)
(***************************************************************************)
MaxNodes == 2     \* raw object nodes over all package documents of an export
MaxCalls == 3     \* aggregator operations applied in the aggregator spec
MaxDocs == 2      \* package*.xml documents of an export
MaxDsNodes == 2   \* object nodes of dataSource.xml in the resolver spec
MaxTabs == 2      \* tabs of a dashboard specification
MaxWidgets == 3   \* widgets of a dashboard specification
MaxTags == 2      \* items of the tags list of a data module
MaxItems == 2     \* queryItems of a querySubject of a data module
MaxDataItems == 2 \* dataItem elements of a specification
MaxRefs == 2      \* useSpec and dataSource entries of a module definition
MaxRaw == 2       \* object nodes of a package document of unrecognized classes
MaxElems == 2     \* modelPath, reportRef and query elements of a report specification
MaxFilters == 1   \* elements of the tree _extract_filters walks
MaxChunks == 4    \* chunks of text over the filterExpression elements of that tree
MaxFolders == 2   \* folder nodes of a package document
MaxTokens == 5    \* tokens of a visualization identifier

Strs == {"a", "b"}   \* identifier strings: object ids, storeIDs, references

Range(s) == {s[i] : i \in DOMAIN s}

SeqsUpTo(S, n) == UNION {[1..k -> S] : k \in 0..n}

(***************************************************************************)
(* core/models.py: ParseResult                                             *)
(***************************************************************************)
NoStats == [k \in {} |-> 0]     \* the empty dict

EmptyResult ==
    [objects |-> <<>>, relationships |-> <<>>, errors |-> <<>>,
     stats |-> NoStats, seen |-> {}]

has_object_id(res, obj_id) == obj_id \in res.seen

\* faulty variant of add_object: a later write replaces the retained object
add_object_overwrite(res, obj) ==
    IF obj.object_id \in res.seen
    THEN [res EXCEPT !.objects =
             [i \in DOMAIN res.objects |->
                 IF res.objects[i].object_id = obj.object_id
                 THEN obj ELSE res.objects[i]]]
    ELSE [res EXCEPT !.seen = @ \cup {obj.object_id},
                     !.objects = Append(@, obj)]

add_object(res, obj) ==
    IF obj.object_id \in res.seen
    THEN res
    ELSE [res EXCEPT !.seen = @ \cup {obj.object_id},
                     !.objects = Append(@, obj)]

\* faulty variant of add_relationship: an edge already present is not added
add_relationship_unique(res, rel) ==
    IF \E i \in DOMAIN res.relationships : res.relationships[i] = rel
    THEN res
    ELSE [res EXCEPT !.relationships = Append(@, rel)]

add_relationship(res, rel) == [res EXCEPT !.relationships = Append(@, rel)]

add_error(res, err) == [res EXCEPT !.errors = Append(@, err)]

RECURSIVE add_objects(_, _)
add_objects(res, objs) ==
    IF objs = <<>> THEN res
    ELSE add_objects(add_object(res, Head(objs)), Tail(objs))

add_relationships(res, rels) == [res EXCEPT !.relationships = @ \o rels]

add_errors(res, errs) == [res EXCEPT !.errors = @ \o errs]

CountBy(s, field) ==
    [k \in {s[i][field] : i \in DOMAIN s} |->
        Cardinality({i \in DOMAIN s : s[i][field] = k})]

StatsOf(res) ==
    [total_objects |-> Len(res.objects),
     total_relationships |-> Len(res.relationships),
     total_errors |-> Len(res.errors),
     objects_by_type |-> CountBy(res.objects, "object_type"),
     relationships_by_type |-> CountBy(res.relationships, "relationship_type"),
     errors_by_level |-> CountBy(res.errors, "level")]

calculate_stats(res) == [res EXCEPT !.stats = StatsOf(res)]

(***************************************************************************)
(* Records of the data model (core/models.py).  origin is the provenance   *)
(* of a record: the document and the index of the raw object node whose    *)
(* dispatch produced it.                                                   *)
(***************************************************************************)
None == "None"
NoOrigin == <<"", 0>>

Obj(id, type, parent, store) ==
    [object_id |-> id, object_type |-> type, parent_id |-> parent,
     storeID |-> store, source_file |-> None, origin |-> NoOrigin]

Rel(src, tgt, type, dep, ref) ==
    [source_id |-> src, target_id |-> tgt, relationship_type |-> type,
     dependency_type |-> dep, ref_type |-> ref, source |-> "",
     origin |-> NoOrigin]

Err(level, message) ==
    [level |-> level, message |-> message, file_name |-> None,
     origin |-> NoOrigin]

Output(objs, rels, errs) ==
    [objects |-> objs, relationships |-> rels, errors |-> errs]

(***************************************************************************)
(* Raw object nodes of the export documents.  blob is the state of the     *)
(* embedded JSON text of the node (dashboard specification, data-module    *)
(* smartsData): absent, not JSON, JSON that is not an object, an object    *)
(* whose dataSources member is not an object, or a well-formed object      *)
(* with one tab and one useSpec reference (ref, refType); "raises" marks a  *)
(* node over which dispatch raises out of the extractor.                   *)
(***************************************************************************)
Node(cls, id, parent, store, blob, ref, refType) ==
    [cls |-> cls, id |-> id, parentId |-> parent, storeID |-> store,
     blob |-> blob, ref |-> ref, refType |-> refType]

PkgNodes ==
    { Node("folder", "a", "", "", "none", "", ""),
      Node("query", "b", "a", "", "raises", "", ""),
      Node("exploration", "a", "", "", "notjson", "", ""),
      Node("exploration", "b", "a", "", "badsources", "", ""),
      Node("exploration", "a", "", "", "object", "b", "module"),
      Node("dataModule", "a", "", "", "notjson", "", "") }

(***************************************************************************)
(* cognos/parser.py: the dispatch table of _parse_object                   *)
(***************************************************************************)
object_type_map(cls) ==
    CASE cls \in {"folder", "catalogFolder"} -> "folder"
      [] cls \in {"report", "interactiveReport", "reportView", "reportVersion",
                  "dataset2"} -> "report"
      [] cls = "output" -> "output"
      [] cls \in {"dashboard", "exploration", "story"} -> "dashboard"
      [] cls \in {"page", "reportPage"} -> "page"
      [] cls \in {"tab", "tabPage"} -> "tab"
      [] cls \in {"dataModule", "smartsModule", "module", "model", "modelView",
                  "dataSet2"} -> "data_module"
      [] cls \in {"package", "packageConfiguration"} -> "package"
      [] cls = "visualization" -> "visualization"
      [] cls = "query" -> "query"
      [] OTHER -> "unknown"

ExtractorTypes == {"folder", "dashboard", "data_module"}

ParentChild(n) ==
    IF n.parentId # ""
    THEN <<Rel(n.parentId, n.id, "parent_child", "", "")>>
    ELSE <<>>

(***************************************************************************)
(* cognos/extractors: extract(source) -> (objects, relationships, errors)  *)
(***************************************************************************)
\* hidden = get_text(props_elem, "hidden/value");
\* if hidden: properties["hidden"] = hidden.lower() == "true"
HiddenProp(n) ==
    IF "hidden" \in DOMAIN n /\ n.hidden # ""
    THEN [hidden |-> n.hidden \in {"true", "True", "TRUE"}]
    ELSE [k \in {} |-> FALSE]

FolderExtract(n) ==
    Output(<<Obj(n.id, "folder", n.parentId, n.storeID) @@ HiddenProp(n)>>,
           ParentChild(n), <<>>)

TabOf(n) == Obj(n.id \o ":tab:t", "tab", n.id, "")

TabRel(n) == Rel(n.id, n.id \o ":tab:t", "contains", "", "")

DashboardUses(n) ==
    IF n.ref # ""
    THEN <<Rel(n.id, n.ref, "uses", "data_source", n.refType)>>
    ELSE <<>>

\* faulty variant of DashboardExtract: undecodable JSON escapes the
\* sub-extractors and is reported as a failure of the whole dashboard
DashboardExtract_undecoded_raises(n) ==
    LET dashboard == Obj(n.id, "dashboard", n.parentId, n.storeID) IN
    IF n.blob = "notjson"
    THEN Output(<<dashboard>>, ParentChild(n),
                <<Err("error", "Failed to extract dashboard")>>)
    ELSE IF n.blob = "none"
         THEN Output(<<dashboard>>, ParentChild(n), <<>>)
         ELSE Output(<<dashboard, TabOf(n)>>,
                     ParentChild(n) \o <<TabRel(n)>> \o DashboardUses(n), <<>>)

DashboardExtract(n) ==
    LET dashboard == Obj(n.id, "dashboard", n.parentId, n.storeID) IN
    CASE n.blob = "none" -> Output(<<dashboard>>, ParentChild(n), <<>>)
      [] n.blob = "notjson" ->
            Output(<<dashboard>>, ParentChild(n),
                   <<Err("warning", "Failed to parse dashboard JSON for tabs"),
                     Err("warning", "Failed to parse dashboard JSON"),
                     Err("warning", "Failed to parse dashboard JSON for filters")>>)
      [] n.blob = "notobject" ->
            Output(<<dashboard>>, ParentChild(n),
                   <<Err("error", "Failed to extract dashboard")>>)
      [] n.blob = "badsources" ->
            Output(<<dashboard, TabOf(n)>>, ParentChild(n) \o <<TabRel(n)>>,
                   <<Err("error", "Failed to extract dashboard")>>)
      [] n.blob = "object" ->
            Output(<<dashboard, TabOf(n)>>,
                   ParentChild(n) \o <<TabRel(n)>> \o DashboardUses(n), <<>>)

ConnectionRefTypes == {"dataSource", "package", "connection", "dataSourceReference"}

UseSpecRel(n) ==
    IF n.ref = "" THEN <<>>
    ELSE IF n.refType \in ConnectionRefTypes
         THEN <<Rel(n.id, n.ref, "connects_to", "data_source", n.refType)>>
         ELSE <<Rel(n.id, n.ref, "uses", "module", n.refType)>>

extract_smarts_data(n) ==
    CASE n.blob \in {"none", "notjson", "badsources"} -> Output(<<>>, <<>>, <<>>)
      [] n.blob = "notobject" ->
            Output(<<>>, <<>>, <<Err("warning", "Failed to parse smartsData")>>)
      [] n.blob = "object" -> Output(<<>>, UseSpecRel(n), <<>>)

DataModuleExtract(n) ==
    LET smarts == extract_smarts_data(n) IN
    Output(smarts.objects \o <<Obj(n.id, "data_module", n.parentId, n.storeID)>>,
           smarts.relationships \o ParentChild(n),
           smarts.errors)

Extract(object_type, n) ==
    CASE object_type = "folder" -> FolderExtract(n)
      [] object_type = "dashboard" -> DashboardExtract(n)
      [] object_type = "data_module" -> DataModuleExtract(n)

(***************************************************************************)
(* cognos/parser.py: _parse_object                                         *)
(***************************************************************************)
Stamp(out, file, origin) ==
    Output([i \in DOMAIN out.objects |->
               [out.objects[i] EXCEPT !.source_file = file, !.origin = origin]],
           [i \in DOMAIN out.relationships |->
               [out.relationships[i] EXCEPT !.origin = origin]],
           [i \in DOMAIN out.errors |->
               [out.errors[i] EXCEPT !.file_name = file, !.origin = origin]])

Aggregate(res, out) ==
    add_errors(add_relationships(add_objects(res, out.objects),
                                 out.relationships), out.errors)

\* XmlHandler.get_text(obj_elem, "name", default="<unnamed>")
NameOf(n) == IF "name" \in DOMAIN n THEN n.name ELSE "<unnamed>"

\* faulty variant of Fallback: the parent_child edge is not created
Fallback_no_edge(n, object_type) ==
    Output(<<Obj(n.id, object_type,
                 IF n.parentId # "" THEN n.parentId ELSE None, n.storeID)
                @@ [name |-> NameOf(n), cognosClass |-> n.cls]>>,
           <<>>, <<>>)

Fallback(n, object_type) ==
    Output(<<Obj(n.id, object_type,
                 IF n.parentId # "" THEN n.parentId ELSE None, n.storeID)
                @@ [name |-> NameOf(n), cognosClass |-> n.cls]>>,
           ParentChild(n), <<>>)

Dispatch(res, n) ==
    LET object_type == object_type_map(n.cls) IN
    IF object_type \in ExtractorTypes
    THEN IF object_type = "data_module" /\ n.id # "" /\ has_object_id(res, n.id)
         THEN Output(<<>>, <<>>, <<>>)
         ELSE Extract(object_type, n)
    ELSE Fallback(n, object_type)

parse_object(res, n, file, origin) ==
    IF n.blob = "raises"
    THEN add_error(res, [Err("warning", "Failed to parse object")
                            EXCEPT !.file_name = file, !.origin = origin])
    ELSE Aggregate(res, Stamp(Dispatch(res, n), file, origin))

(***************************************************************************)
(* cognos/parser.py: _parse_data_sources                                   *)
(***************************************************************************)
DsFile == "dataSource.xml"

ds_object_type(cls) ==
    CASE cls \in {"dataSource", "dataSourceReference"} -> "data_source"
      [] cls \in {"dataSourceConnection", "connection"} -> "data_source_connection"
      [] cls \in {"package", "packageReference"} -> "data_source"
      [] cls \in {"dataSourceSchema", "baseModule"} -> "data_source"
      [] OTHER -> None

DsModuleClasses == {"smartsModule", "dataModule", "module"}

RECURSIVE parse_ds_nodes(_, _, _, _)
parse_ds_nodes(res, nodes, k, map) ==
    IF k > Len(nodes)
    THEN [res EXCEPT !.stats = ("data_sources_by_store_id" :> map) @@ @]
    ELSE LET n == nodes[k]
             origin == <<DsFile, k>>
             obj_type == ds_object_type(n.cls)
         IN IF n.cls \in DsModuleClasses
            THEN IF has_object_id(res, n.id)
                 THEN parse_ds_nodes(res, nodes, k + 1, map)
                 ELSE parse_ds_nodes(
                          Aggregate(res, Stamp(DataModuleExtract(n), DsFile, origin)),
                          nodes, k + 1, map)
            ELSE IF obj_type # None
                 THEN parse_ds_nodes(
                          Aggregate(res,
                              Stamp(Output(<<Obj(n.id, obj_type,
                                                 IF n.parentId # "" THEN n.parentId
                                                 ELSE None, n.storeID)>>,
                                           ParentChild(n), <<>>), DsFile, origin)),
                          nodes, k + 1,
                          IF n.storeID # "" THEN (n.storeID :> n.id) @@ map
                          ELSE map)
                 ELSE parse_ds_nodes(res, nodes, k + 1, map)

parse_data_sources(res, doc) ==
    CASE doc.status = "absent" -> res
      [] doc.status = "malformed" ->
            add_error(res, [Err("warning", "Failed to parse dataSource.xml")
                               EXCEPT !.file_name = DsFile])
      [] doc.status = "noobjects" -> res
      [] doc.status = "ok" -> parse_ds_nodes(res, doc.nodes, 1, NoStats)

(***************************************************************************)
(* cognos/parser.py: _create_data_source_connections                       *)
(***************************************************************************)
DataSourceTypes == {"data_source", "data_source_connection"}

RECURSIVE store_index(_, _)
store_index(objs, map) ==
    IF objs = <<>> THEN map
    ELSE LET o == Head(objs) IN
         store_index(Tail(objs),
             IF o.object_type \in DataSourceTypes /\ o.storeID # ""
             THEN (o.storeID :> o.object_id) @@ map
             ELSE map)

data_sources_by_store_id(res) ==
    LET fromObjects == store_index(res.objects, NoStats) IN
    IF "data_sources_by_store_id" \in DOMAIN res.stats
    THEN res.stats["data_sources_by_store_id"] @@ fromObjects
    ELSE fromObjects

HasConnectsTo(res, src, tgt) ==
    \E i \in DOMAIN res.relationships :
        /\ res.relationships[i].source_id = src
        /\ res.relationships[i].target_id = tgt
        /\ res.relationships[i].relationship_type = "connects_to"

ConnectsRel(src, tgt, ref_type, via) ==
    [Rel(src, tgt, "connects_to", "", ref_type)
        EXCEPT !.source = via, !.origin = <<"resolver", 0>>]

HasConnectsFrom(res, src) ==
    \E i \in DOMAIN res.relationships :
        /\ res.relationships[i].source_id = src
        /\ res.relationships[i].relationship_type = "connects_to"

\* faulty variant of connect: the test for an existing edge ignores the target
connect_once_per_source(res, src, tgt, ref_type, via) ==
    IF HasConnectsFrom(res, src) THEN res
    ELSE add_relationship(res, ConnectsRel(src, tgt, ref_type, via))

\* faulty variant of connect: no test for an existing edge
connect_nocheck(res, src, tgt, ref_type, via) ==
    add_relationship(res, ConnectsRel(src, tgt, ref_type, via))

connect(res, src, tgt, ref_type, via) ==
    IF HasConnectsTo(res, src, tgt) THEN res
    ELSE add_relationship(res, ConnectsRel(src, tgt, ref_type, via))

\* faulty variant of first_pass: only the uses edges that name a module are
\* looked up in the index
RECURSIVE first_pass_module_edges_only(_, _, _)
first_pass_module_edges_only(res, uses_rels, index) ==
    IF uses_rels = <<>> THEN res
    ELSE LET rel == Head(uses_rels) IN
         first_pass_module_edges_only(
             IF rel.target_id \in DOMAIN index /\ rel.dependency_type = "module"
             THEN connect(res, rel.source_id, index[rel.target_id],
                          rel.ref_type, "useSpec")
             ELSE res,
             Tail(uses_rels), index)

RECURSIVE first_pass(_, _, _)
first_pass(res, uses_rels, index) ==
    IF uses_rels = <<>> THEN res
    ELSE LET rel == Head(uses_rels) IN
         first_pass(
             IF rel.target_id \in DOMAIN index
             THEN connect(res, rel.source_id, index[rel.target_id],
                          rel.ref_type, "useSpec")
             ELSE res,
             Tail(uses_rels), index)

RECURSIVE connect_module_uses(_, _, _, _)
connect_module_uses(res, obj, module_uses, index) ==
    IF module_uses = <<>> THEN res
    ELSE LET use_rel == Head(module_uses) IN
         connect_module_uses(
             IF use_rel.target_id \in DOMAIN index
             THEN connect(res, obj.object_id, index[use_rel.target_id],
                          use_rel.ref_type, "post_process")
             ELSE res,
             obj, Tail(module_uses), index)

ModuleUses(res, obj) ==
    LET Test(r) == /\ r.source_id = obj.object_id
                   /\ r.relationship_type = "uses"
                   /\ r.dependency_type = "data_source"
    IN SelectSeq(res.relationships, Test)

RECURSIVE second_pass_sources(_, _, _, _)
second_pass_sources(res, obj, ds_objs, index) ==
    IF ds_objs = <<>> THEN res
    ELSE second_pass_sources(
             IF Head(ds_objs).object_type = "data_source"
             THEN connect_module_uses(res, obj, ModuleUses(res, obj), index)
             ELSE res,
             obj, Tail(ds_objs), index)

RECURSIVE second_pass(_, _, _)
second_pass(res, objs, index) ==
    IF objs = <<>> THEN res
    ELSE second_pass(
             IF Head(objs).object_type = "data_module"
             THEN second_pass_sources(res, Head(objs), res.objects, index)
             ELSE res,
             Tail(objs), index)

UsesRels(res) ==
    LET Test(r) == r.relationship_type = "uses"
    IN SelectSeq(res.relationships, Test)

create_data_source_connections(res) ==
    LET index == data_sources_by_store_id(res)
        afterFirst == first_pass(res, UsesRels(res), index)
    IN second_pass(afterFirst, afterFirst.objects, index)

(***************************************************************************)
(* The documents an export can hold.                                       *)
(***************************************************************************)
Doc(status, nodes) == [status |-> status, nodes |-> nodes]

DocShapes ==
    {[status |-> "malformed", n |-> 0]}
    \cup {[status |-> "ok", n |-> k] : k \in 1..MaxNodes}

RECURSIVE Total(_)
Total(shape) == IF shape = <<>> THEN 0 ELSE Head(shape).n + Total(Tail(shape))

RECURSIVE BuildDocs(_, _)
BuildDocs(flat, shape) ==
    IF shape = <<>> THEN <<>>
    ELSE <<Doc(Head(shape).status, SubSeq(flat, 1, Head(shape).n))>>
         \o BuildDocs(SubSeq(flat, Head(shape).n + 1, Len(flat)), Tail(shape))

PkgInputs ==
    UNION {{BuildDocs(flat, shape) : flat \in [1..Total(shape) -> PkgNodes]} :
              shape \in {sh \in SeqsUpTo(DocShapes, MaxDocs) : Total(sh) <= MaxNodes}}

DsDocs ==
    { Doc("absent", <<>>), Doc("malformed", <<>>),
      Doc("ok", <<Node("dataSource", "b", "", "b", "none", "", "")>>) }

PackageFile(i) == "package" \o ToString(i) \o ".xml"

(***************************************************************************)
(* cognos/parser.py: CognosParser.parse, one action per stage              *)
(***************************************************************************)
ExportDir == "export"
TmpDir == "tmp"

Exports ==
    [kind : {"dir", "zip"}, hasContent : BOOLEAN, hasPackage : BOOLEAN]
    \cup [kind : {"file", "missing"}, hasContent : {FALSE}, hasPackage : {FALSE}]

\* CognosConfig(): the parser is constructed with the default configuration
Configs ==
    [cleanup_temp : {TRUE}, include_hidden : {FALSE}, continue_on_error : {TRUE}]

\* faulty variant of validate_export: content.xml is not required
validate_export_packages_only(e) == e.kind \in {"dir", "zip"} /\ e.hasPackage

validate_export(e) == e.kind \in {"dir", "zip"} /\ e.hasContent /\ e.hasPackage

Critical(message) == Err("critical", message)

ManifestStats ==
    [cognos_version |-> "11.1.7", cognos_edition |-> "unknown",
     archive_version |-> "unknown"]

Init ==
    /\ pc = "start"
    /\ export \in Exports
    /\ config \in Configs
    /\ result = EmptyResult
    /\ docIdx = 0
    /\ nodeIdx = 0
    /\ temp_dir = None
    /\ fs = IF export.kind = "dir" THEN {ExportDir} ELSE {}
    /\ docs = <<>>
    /\ dsdoc = Doc("absent", <<>>)
    /\ stages = <<>>
    /\ calls = <<>>
    /\ source = None
    /\ extracted = None

Validate ==
    /\ pc = "start"
    /\ stages' = Append(stages, "validate")
    /\ IF validate_export(export)
       THEN /\ pc' = "prepare"
            /\ UNCHANGED result
       ELSE /\ result' = add_error(result, Critical("Invalid Cognos export file"))
            /\ pc' = "returned"
    /\ UNCHANGED <<export, config, docIdx, nodeIdx, temp_dir, fs, docs, dsdoc, calls, source, extracted>>

Prepare ==
    /\ pc = "prepare"
    /\ stages' = Append(stages, "prepare")
    /\ IF export.kind = "dir"
       THEN temp_dir' = ExportDir /\ UNCHANGED fs
       ELSE temp_dir' = TmpDir /\ fs' = fs \cup {TmpDir}
    /\ pc' = "manifest"
    /\ UNCHANGED <<export, config, result, docIdx, nodeIdx, docs, dsdoc, calls, source, extracted>>

ParseManifest ==
    /\ pc = "manifest"
    /\ stages' = Append(stages, "manifest")
    /\ \E wellFormed \in BOOLEAN :
          result' = IF wellFormed
                    THEN [result EXCEPT !.stats = ManifestStats @@ @]
                    ELSE add_error(result,
                             [Err("error", "Failed to parse content.xml")
                                 EXCEPT !.file_name = "content.xml"])
    /\ pc' = "packages"
    /\ UNCHANGED <<export, config, docIdx, nodeIdx, temp_dir, fs, docs, dsdoc, calls, source, extracted>>

ParsePackages ==
    /\ pc = "packages"
    /\ stages' = Append(stages, "packages")
    /\ \E found \in PkgInputs :
          /\ found = <<>> => export.kind = "zip"
          /\ docs' = found
          /\ IF found = <<>>
             THEN /\ result' = add_error(result,
                                   [Err("error", "No package*.xml files found")
                                       EXCEPT !.file_name = "<root>"])
                  /\ pc' = "datasources"
                  /\ UNCHANGED docIdx
             ELSE /\ pc' = "doc"
                  /\ docIdx' = 1
                  /\ UNCHANGED result
    /\ UNCHANGED <<export, config, nodeIdx, temp_dir, fs, dsdoc, calls, source, extracted>>

\* faulty variant of NextDoc: the loop over package documents ends after
\* the first one
NextDoc_first_document_only == pc' = "datasources" /\ UNCHANGED docIdx

NextDoc ==
    IF docIdx < Len(docs)
    THEN pc' = "doc" /\ docIdx' = docIdx + 1
    ELSE pc' = "datasources" /\ UNCHANGED docIdx

ParsePackageFile ==
    /\ pc = "doc"
    /\ stages' = Append(stages, "doc")
    /\ LET doc == docs[docIdx] IN
       CASE doc.status = "malformed" ->
                /\ result' = add_error(result,
                                 [Err("error", "Failed to parse package file")
                                     EXCEPT !.file_name = PackageFile(docIdx)])
                /\ NextDoc
                /\ UNCHANGED nodeIdx
         [] doc.status = "noobjects" ->
                /\ NextDoc
                /\ UNCHANGED <<result, nodeIdx>>
         [] doc.status = "ok" ->
                /\ pc' = "object"
                /\ nodeIdx' = 1
                /\ UNCHANGED <<result, docIdx>>
    /\ UNCHANGED <<export, config, temp_dir, fs, docs, dsdoc, calls, source, extracted>>

\* faulty variant of ParseObject: a node that records a diagnostic ends the
\* loop over the nodes of its document
ParseObject_stop_on_failure ==
    /\ pc = "object"
    /\ stages' = Append(stages, "object")
    /\ result' = parse_object(result, docs[docIdx].nodes[nodeIdx],
                              PackageFile(docIdx), <<PackageFile(docIdx), nodeIdx>>)
    /\ IF /\ nodeIdx < Len(docs[docIdx].nodes)
          /\ Len(result'.errors) = Len(result.errors)
       THEN nodeIdx' = nodeIdx + 1 /\ UNCHANGED <<pc, docIdx>>
       ELSE NextDoc /\ UNCHANGED nodeIdx
    /\ UNCHANGED <<export, config, temp_dir, fs, docs, dsdoc, calls, source, extracted>>

ParseObject ==
    /\ pc = "object"
    /\ stages' = Append(stages, "object")
    /\ result' = parse_object(result, docs[docIdx].nodes[nodeIdx],
                              PackageFile(docIdx), <<PackageFile(docIdx), nodeIdx>>)
    /\ IF nodeIdx < Len(docs[docIdx].nodes)
       THEN nodeIdx' = nodeIdx + 1 /\ UNCHANGED <<pc, docIdx>>
       ELSE NextDoc /\ UNCHANGED nodeIdx
    /\ UNCHANGED <<export, config, temp_dir, fs, docs, dsdoc, calls, source, extracted>>

ParseDataSourcesFrom(found) ==
    /\ pc = "datasources"
    /\ stages' = Append(stages, "datasources")
    /\ \E doc \in found :
          /\ dsdoc' = doc
          /\ result' = parse_data_sources(result, doc)
    /\ pc' = "resolve"
    /\ UNCHANGED <<export, config, docIdx, nodeIdx, temp_dir, fs, docs, calls, source, extracted>>

ParseDataSources == ParseDataSourcesFrom(DsDocs)

CreateDataSourceConnections ==
    /\ pc = "resolve"
    /\ stages' = Append(stages, "resolve")
    /\ result' = create_data_source_connections(result)
    /\ pc' = "stats"
    /\ UNCHANGED <<export, config, docIdx, nodeIdx, temp_dir, fs, docs, dsdoc, calls, source, extracted>>

CalculateStats ==
    /\ pc = "stats"
    /\ stages' = Append(stages, "stats")
    /\ result' = calculate_stats(result)
    /\ pc' = "finally"
    /\ UNCHANGED <<export, config, docIdx, nodeIdx, temp_dir, fs, docs, dsdoc, calls, source, extracted>>

\* An exception escapes a stage to the handler of parse(): the stages that touch
\* the file system outside their own try block (ZipHandler.extract,
\* manifest_path.exists(), extract_dir.glob(), ds_path.exists()).
RaisePcs == {"prepare", "manifest", "packages", "datasources"}

\* faulty variant of StageRaises: the handler reports on a fresh Result
StageRaises_fresh_result ==
    /\ pc \in RaisePcs
    /\ pc = "prepare" => export.kind = "zip"
    /\ stages' = Append(stages, "except")
    /\ result' = add_error(EmptyResult, Critical("Fatal error during parsing"))
    /\ IF pc = "prepare"
       THEN fs' \in {fs, fs \cup {TmpDir}}
       ELSE UNCHANGED fs
    /\ pc' = "finally"
    /\ UNCHANGED <<export, config, docIdx, nodeIdx, temp_dir, docs, dsdoc, calls, source, extracted>>

StageRaises ==
    /\ pc \in RaisePcs
    /\ pc = "prepare" => export.kind = "zip"
    /\ stages' = Append(stages, "except")
    /\ result' = add_error(result, Critical("Fatal error during parsing"))
    /\ IF pc = "prepare"
       THEN fs' \in {fs, fs \cup {TmpDir}}
       ELSE UNCHANGED fs
    /\ pc' = "finally"
    /\ UNCHANGED <<export, config, docIdx, nodeIdx, temp_dir, docs, dsdoc, calls, source, extracted>>

Finally ==
    /\ pc = "finally"
    /\ stages' = Append(stages, "finally")
    /\ IF temp_dir # None /\ config.cleanup_temp
       THEN fs' = fs \ {temp_dir} /\ temp_dir' = None
       ELSE UNCHANGED <<fs, temp_dir>>
    /\ pc' = "returned"
    /\ UNCHANGED <<export, config, result, docIdx, nodeIdx, docs, dsdoc, calls, source, extracted>>

(***************************************************************************)
(* The aggregator alone: any sequence of ParseResult operations.           *)
(***************************************************************************)
AggObjects ==
    {[Obj(id, type, "", "") EXCEPT !.source_file = file] :
        id \in Strs, type \in {"folder", "dashboard"},
        file \in {PackageFile(1), DsFile}}

AggRels == {Rel("a", "b", type, "", "") : type \in {"uses", "connects_to"}}

AggErrs == {Err(level, "") : level \in {"warning", "error"}}

InitAgg ==
    /\ pc = "aggregate"
    /\ export = [kind |-> "dir", hasContent |-> TRUE, hasPackage |-> TRUE]
    /\ config \in Configs
    /\ result = EmptyResult
    /\ docIdx = 0
    /\ nodeIdx = 0
    /\ temp_dir = None
    /\ fs = {}
    /\ docs = <<>>
    /\ dsdoc = Doc("absent", <<>>)
    /\ stages = <<>>
    /\ calls = <<>>
    /\ source = None
    /\ extracted = None

AggFrame ==
    UNCHANGED <<pc, export, config, docIdx, nodeIdx, temp_dir, fs, docs, dsdoc,
                source, extracted>>

AggAddObject ==
    /\ pc = "aggregate" /\ Len(stages) < MaxCalls
    /\ \E obj \in AggObjects :
          /\ result' = add_object(result, obj)
          /\ calls' = Append(calls, obj)
    /\ stages' = Append(stages, "add_object")
    /\ AggFrame

AggAddRelationship ==
    /\ pc = "aggregate" /\ Len(stages) < MaxCalls
    /\ \E rel \in AggRels : result' = add_relationship(result, rel)
    /\ stages' = Append(stages, "add_relationship")
    /\ UNCHANGED calls
    /\ AggFrame

AggAddError ==
    /\ pc = "aggregate" /\ Len(stages) < MaxCalls
    /\ \E err \in AggErrs : result' = add_error(result, err)
    /\ stages' = Append(stages, "add_error")
    /\ UNCHANGED calls
    /\ AggFrame

AggCalculateStats ==
    /\ pc = "aggregate" /\ Len(stages) < MaxCalls
    /\ result' = calculate_stats(result)
    /\ stages' = Append(stages, "calculate_stats")
    /\ UNCHANGED calls
    /\ AggFrame

NextAgg ==
    \/ AggAddObject
    \/ AggAddRelationship
    \/ AggAddError
    \/ AggCalculateStats

SpecAgg == InitAgg /\ [][NextAgg]_vars

(***************************************************************************)
(* The resolver over richer graphs: parse() from the point where one       *)
(* package document has been dispatched, with dataSource.xml documents     *)
(* that declare several data sources and modules.                          *)
(***************************************************************************)
ResolveNodes ==
    { Node("exploration", "a", "", "", "object", "b", "module"),
      Node("exploration", "a", "", "", "object", "a", "module"),
      Node("exploration", "b", "", "", "object", "b", "module"),
      Node("dataModule", "a", "", "", "object", "b", "dataSource"),
      Node("dataModule", "b", "", "", "object", "a", "module"),
      Node("folder", "a", "", "", "none", "", "") }

DsNodes ==
    { Node("dataSource", "b", "", "b", "none", "", ""),
      Node("dataSource", "a", "b", "b", "none", "", ""),
      Node("dataSourceConnection", "b", "", "a", "none", "", ""),
      Node("dataSource", "c", "", "", "none", "", ""),
      Node("smartsModule", "a", "", "", "object", "b", "module") }

ResolveDsDocs ==
    {Doc("absent", <<>>), Doc("malformed", <<>>)}
    \cup {Doc("ok", nodes) : nodes \in SeqsUpTo(DsNodes, MaxDsNodes) \ {<<>>}}

RECURSIVE parse_objects(_, _, _, _)
parse_objects(res, nodes, k, file) ==
    IF k > Len(nodes) THEN res
    ELSE parse_objects(parse_object(res, nodes[k], file, <<file, k>>),
                       nodes, k + 1, file)

InitResolve ==
    \E nodes \in SeqsUpTo(ResolveNodes, MaxNodes) \ {<<>>} :
        /\ pc = "datasources"
        /\ export = [kind |-> "dir", hasContent |-> TRUE, hasPackage |-> TRUE]
        /\ config \in Configs
        /\ result = parse_objects([EmptyResult EXCEPT !.stats = ManifestStats],
                                  nodes, 1, PackageFile(1))
        /\ docIdx = 1
        /\ nodeIdx = Len(nodes)
        /\ temp_dir = ExportDir
        /\ fs = {ExportDir}
        /\ docs = <<Doc("ok", nodes)>>
        /\ dsdoc = Doc("absent", <<>>)
        /\ stages = <<"validate", "prepare", "manifest", "packages", "doc">>
                        \o [i \in 1..Len(nodes) |-> "object"]
        /\ calls = <<>>
        /\ source = None
        /\ extracted = None

ResolveParseDataSources == ParseDataSourcesFrom(ResolveDsDocs)

NextResolve ==
    \/ ResolveParseDataSources
    \/ CreateDataSourceConnections
    \/ CalculateStats

SpecResolve == InitResolve /\ [][NextResolve]_vars

(***************************************************************************)
(* DashboardExtractor.extract over a decoded specification: the tabs of    *)
(* the layout and the widgets dictionary, one step per routine and two     *)
(* steps per widget (the object is built, then placed under its parent),   *)
(* followed by the aggregation of what extract returned.                   *)
(***************************************************************************)
DashId == "d"

WidgetId(i) == "w" \o ToString(i)

Widget(id, viz) == [id |-> id, viz |-> viz]

Tab(id, widgets) == [id |-> id, widgets |-> widgets]

\* tabs of a layout: id (possibly missing) and the widget ids they reference
DashTabs ==
    { Tab("t", <<"w1", "w2">>), Tab("t", <<"w1">>), Tab("u", <<"w2">>),
      Tab("u", <<"w1", "w1">>), Tab("", <<"w1">>), Tab("t", <<>>),
      Tab("u", <<"w3", "w9">>) }

\* the widgets dictionary, in insertion order; viz: the widget is a
\* visualization (it has a visId or a data-driven type)
DashWidgets ==
    UNION {{[i \in 1..k |-> Widget(WidgetId(i), flags[i])] :
               flags \in [1..k -> BOOLEAN]} : k \in 0..MaxWidgets}

DashSpecs == [tabs : SeqsUpTo(DashTabs, MaxTabs), widgets : DashWidgets]

Contains(src, tgt) == Rel(src, tgt, "contains", "", "")

\* faulty variant of TabId: the id of a tab does not start with the id of
\* the dashboard
TabId_unprefixed(tab, idx) ==
    "tab:" \o (IF tab.id # "" THEN tab.id ELSE ToString(idx))

TabId(tab, idx) ==
    DashId \o ":tab:" \o (IF tab.id # "" THEN tab.id ELSE ToString(idx))

RECURSIVE extract_tabs(_, _)
extract_tabs(tabs, k) ==
    IF k > Len(tabs) THEN Output(<<>>, <<>>, <<>>)
    ELSE LET tab_id == TabId(tabs[k], k - 1)
             rest == extract_tabs(tabs, k + 1)
         IN Output(<<Obj(tab_id, "tab", DashId, "")>> \o rest.objects,
                   <<Contains(DashId, tab_id)>>
                      \o [i \in DOMAIN tabs[k].widgets |->
                             Contains(tab_id, DashId \o ":widget:" \o tabs[k].widgets[i])]
                      \o rest.relationships,
                   <<>>)

RECURSIVE widget_to_tab(_, _, _)
widget_to_tab(tabs, k, map) ==
    IF k > Len(tabs) THEN map
    ELSE widget_to_tab(tabs, k + 1,
             IF tabs[k].id # ""
             THEN [w \in Range(tabs[k].widgets) |-> TabId(tabs[k], k - 1)] @@ map
             ELSE map)

InitDashboard ==
    /\ pc = "extract"
    /\ source \in DashSpecs
    /\ extracted = [objects |-> <<>>, relationships |-> <<>>, errors |-> <<>>,
                    widx |-> 1, viz_obj |-> None, moves |-> 0]
    /\ export = [kind |-> "dir", hasContent |-> TRUE, hasPackage |-> TRUE]
    /\ config \in Configs
    /\ result = EmptyResult
    /\ docIdx = 0
    /\ nodeIdx = 0
    /\ temp_dir = None
    /\ fs = {}
    /\ docs = <<>>
    /\ dsdoc = Doc("absent", <<>>)
    /\ stages = <<>>
    /\ calls = <<>>

DashFrame ==
    UNCHANGED <<export, config, docIdx, nodeIdx, temp_dir, fs, docs, dsdoc,
                stages, calls, source>>

\* extract(): the dashboard object, then _extract_tabs
DashExtractTabs ==
    /\ pc = "extract"
    /\ LET tabs == extract_tabs(source.tabs, 1) IN
       extracted' = [extracted EXCEPT
                        !.objects = <<Obj(DashId, "dashboard", "", "")>> \o tabs.objects,
                        !.relationships = tabs.relationships]
    /\ pc' = "widgets"
    /\ UNCHANGED result
    /\ DashFrame

\* _process_widget up to the construction of viz_obj
DashCreateWidget ==
    /\ pc = "widgets"
    /\ extracted.widx <= Len(source.widgets)
    /\ LET w == source.widgets[extracted.widx] IN
       IF w.viz
       THEN /\ extracted' = [extracted EXCEPT
                   !.viz_obj = Obj(DashId \o ":widget:" \o w.id, "visualization",
                                   DashId, ""),
                   !.moves = 0]
            /\ pc' = "place"
       ELSE /\ extracted' = [extracted EXCEPT !.widx = @ + 1]
            /\ UNCHANGED pc
    /\ UNCHANGED result
    /\ DashFrame

\* faulty variant of DashPlaceWidget: the widget is returned under the
\* dashboard and re-parented to its tab only when the next widget is placed
DashPlaceWidget_late ==
    /\ pc = "place"
    /\ LET map == widget_to_tab(source.tabs, 1, NoStats)
           n == Len(extracted.objects)
           last == extracted.objects[n]
           key == IF last.object_type = "visualization"
                  THEN source.widgets[extracted.widx - 1].id ELSE ""
       IN extracted' = [extracted EXCEPT
              !.objects = Append(
                  IF key \in DOMAIN map
                  THEN [@ EXCEPT ![n].parent_id = map[key]] ELSE @,
                  extracted.viz_obj),
              !.relationships = Append(@, Contains(DashId, extracted.viz_obj.object_id)),
              !.viz_obj = None,
              !.widx = @ + 1]
    /\ pc' = "widgets"
    /\ UNCHANGED result
    /\ DashFrame

\* _process_widget from the choice of the parent on, and the append of the
\* widget to the output of _extract_visualizations
DashPlaceWidget ==
    /\ pc = "place"
    /\ LET w == source.widgets[extracted.widx]
           map == widget_to_tab(source.tabs, 1, NoStats)
           in_tab == w.id \in DOMAIN map
           parent_id == IF in_tab THEN map[w.id] ELSE DashId
           viz_obj == [extracted.viz_obj EXCEPT !.parent_id = parent_id]
       IN extracted' = [extracted EXCEPT
              !.objects = Append(@, viz_obj),
              !.relationships =
                  @ \o <<Contains(parent_id, viz_obj.object_id)>>
                    \o (IF parent_id # DashId
                        THEN <<Contains(DashId, viz_obj.object_id)>> ELSE <<>>),
              !.viz_obj = None,
              !.moves = IF in_tab THEN @ + 1 ELSE @,
              !.widx = @ + 1]
    /\ pc' = "widgets"
    /\ UNCHANGED result
    /\ DashFrame

\* extract() returns and _parse_object aggregates what it returned
DashAggregate ==
    /\ pc = "widgets"
    /\ extracted.widx > Len(source.widgets)
    /\ result' = Aggregate(result,
                     Stamp(Output(extracted.objects, extracted.relationships,
                                  extracted.errors),
                           PackageFile(1), <<PackageFile(1), 1>>))
    /\ pc' = "aggregated"
    /\ UNCHANGED extracted
    /\ DashFrame

NextDashboard ==
    \/ DashExtractTabs
    \/ DashCreateWidget
    \/ DashPlaceWidget
    \/ DashAggregate

SpecDashboard == InitDashboard /\ [][NextDashboard]_vars

(***************************************************************************)
(* DataModuleExtractor.extract over a module with a tags list and a        *)
(* decoded smartsData blob: tables and columns from the two sources.       *)
(***************************************************************************)
ModId == "m"

\* a JSON scalar: an integer or a string, with its text
Usage(int, text) == [int |-> int, text |-> text]

DATA_USAGE_MAP == ("" :> "unknown") @@ ("0" :> "attribute") @@ ("1" :> "dimension")
                     @@ ("2" :> "measure")

\* the comparisons of the raw value against the string and integer encodings
usage_class(u) ==
    IF (~u.int /\ u.text \in {"fact", "measure"}) \/ (u.int /\ u.text = "2")
    THEN "measure"
    ELSE IF (~u.int /\ u.text \in {"attribute", "dimension"})
               \/ (u.int /\ u.text \in {"0", "1"})
    THEN IF (u.int /\ u.text = "1") \/ (~u.int /\ u.text = "dimension")
         THEN "dimension" ELSE "attribute"
    ELSE "unknown"

\* usage -> data_usage of a queryItem or an embedded calculation
data_usage_of(u) ==
    LET mapped == IF u.text \in DOMAIN DATA_USAGE_MAP
                  THEN DATA_USAGE_MAP[u.text] ELSE "unknown"
    IN IF mapped = "unknown" /\ u.text # "" THEN usage_class(u) ELSE mapped

AGGREGATION_MAP ==
    ("none" :> "none") @@ ("total" :> "sum") @@ ("count" :> "count")
       @@ ("average" :> "average") @@ ("minimum" :> "minimum") @@ ("maximum" :> "maximum")

\* str.lower() on the aggregate names of the inputs
lower(a) == IF a = "Total" THEN "total" ELSE a

\* regularAggregate -> agg_type of a queryItem or an embedded calculation
agg_type_of(aggregate) ==
    IF aggregate = "" THEN "none"
    ELSE IF lower(aggregate) \in DOMAIN AGGREGATION_MAP
         THEN AGGREGATION_MAP[lower(aggregate)] ELSE aggregate

column_type(data_usage, agg_type) ==
    IF data_usage = "measure" \/ agg_type # "none" THEN "measure"
    ELSE IF data_usage \in {"dimension", "attribute"} THEN "dimension"
    ELSE "column"

\* an object below a module or a specification: name, properties.full_path,
\* properties.source and properties.data_usage besides the fields of Obj
ChildObj(id, type, parent, name, path, src, usage) ==
    [object_id |-> id, object_type |-> type, parent_id |-> parent,
     storeID |-> "", source_file |-> None, origin |-> NoOrigin,
     name |-> name, full_path |-> path, source |-> src, data_usage |-> usage]

Tag(table, column) == [table |-> table, column |-> column]

tag_value(tag) ==
    IF tag.column = "" THEN tag.table ELSE tag.table \o "." \o tag.column

QI(name, usage, aggregate) == [name |-> name, usage |-> usage, regularAggregate |-> aggregate]

QS(name, queryItem) == [name |-> name, queryItem |-> queryItem]

ModTags == {Tag("T", ""), Tag("T", "c"), Tag("T", "d"), Tag("U", "c")}

QueryItems ==
    {QI("c", Usage(TRUE, "2"), ""), QI("c", Usage(FALSE, "dimension"), ""),
     QI("c", Usage(FALSE, ""), "Total"), QI("d", Usage(FALSE, "attribute"), "")}

QuerySubjects == {QS(n, items) : n \in {"T", "V"}, items \in SeqsUpTo(QueryItems, MaxItems)}

Modules == [tags : SeqsUpTo(ModTags, MaxTags), querySubject : SeqsUpTo(QuerySubjects, 1)]

TableId(name) == ModId \o ":table:" \o name

ColumnId(full_path) == ModId \o ":col:" \o full_path

HasColumn(src, tgt) == Rel(src, tgt, "has_column", "", "")

Ids(objects) == {objects[i].object_id : i \in DOMAIN objects}

Names(objects) == {objects[i].name : i \in DOMAIN objects}

Paths(objects) == {objects[i].full_path : i \in DOMAIN objects}

\* _extract_smarts_data: the queryItem loop of one querySubject
RECURSIVE smarts_columns(_, _, _)
smarts_columns(qs, k, acc) ==
    IF k > Len(qs.queryItem) THEN acc
    ELSE LET qi == qs.queryItem[k]
             path == qs.name \o "." \o qi.name
             data_usage == data_usage_of(qi.usage)
             agg_type == agg_type_of(qi.regularAggregate)
         IN smarts_columns(qs, k + 1,
                IF ColumnId(path) \in Ids(acc.columns)
                THEN acc
                ELSE [acc EXCEPT
                        !.columns = Append(@,
                            ChildObj(ColumnId(path), column_type(data_usage, agg_type),
                                     TableId(qs.name), qi.name, path, "moserJSON",
                                     data_usage)),
                        !.relationships =
                            Append(@, HasColumn(TableId(qs.name), ColumnId(path)))])

\* _extract_smarts_data: the querySubject loop; tables and columns go to the
\* lists of their own, the edges to the relationships of the blob
RECURSIVE smarts_tables(_, _, _)
smarts_tables(subjects, k, acc) ==
    IF k > Len(subjects) THEN acc
    ELSE LET qs == subjects[k]
             table_id == TableId(qs.name)
         IN smarts_tables(subjects, k + 1,
                IF table_id \in Ids(acc.tables)
                THEN acc
                ELSE smarts_columns(qs, 1,
                        [acc EXCEPT
                            !.tables = Append(@,
                                ChildObj(table_id, "table", ModId, qs.name, "",
                                         "moserJSON", "")),
                            !.relationships = Append(@, Contains(ModId, table_id))]))

NoSmarts == [objects |-> <<>>, relationships |-> <<>>, tables |-> <<>>, columns |-> <<>>]

RECURSIVE extract_tables_and_columns(_, _, _, _, _)
extract_tables_and_columns(tags, k, smarts_names, smarts_paths, acc) ==
    IF k > Len(tags) THEN acc
    ELSE LET tag == tags[k]
             table_id == TableId(tag.table)
             fresh == tag.table \notin smarts_names /\ tag.table \notin Names(acc.tables)
             acc1 == IF fresh
                     THEN [acc EXCEPT
                             !.tables = Append(@,
                                 ChildObj(table_id, "table", ModId, tag.table, "",
                                          "tags", "")),
                             !.table_rels = Append(@, Contains(ModId, table_id))]
                     ELSE acc
             acc2 == IF tag.column # "" /\ tag_value(tag) \notin smarts_paths
                     THEN [acc1 EXCEPT
                             !.columns = Append(@,
                                 ChildObj(ColumnId(tag_value(tag)), "column", table_id,
                                          tag.column, tag_value(tag), "tags", "")),
                             !.column_rels = Append(@,
                                 HasColumn(table_id, ColumnId(tag_value(tag))))]
                     ELSE acc1
         IN extract_tables_and_columns(tags, k + 1, smarts_names, smarts_paths, acc2)

NoTags == [tables |-> <<>>, columns |-> <<>>, table_rels |-> <<>>, column_rels |-> <<>>]

RelsTo(rels, id) == SelectSeq(rels, LAMBDA r : r.target_id = id)

\* extract(): tables of the tags are added unless smartsData has the name
RECURSIVE add_tag_tables(_, _, _, _, _)
add_tag_tables(tables, k, table_rels, smarts_names, out) ==
    IF k > Len(tables) THEN out
    ELSE add_tag_tables(tables, k + 1, table_rels, smarts_names,
            IF tables[k].name \notin smarts_names
            THEN Output(Append(out.objects, tables[k]),
                        out.relationships \o RelsTo(table_rels, tables[k].object_id),
                        out.errors)
            ELSE out)

\* extract(): columns of the tags are added unless smartsData has the path
RECURSIVE add_tag_columns(_, _, _, _, _)
add_tag_columns(columns, k, column_rels, smarts_paths, out) ==
    IF k > Len(columns) THEN out
    ELSE add_tag_columns(columns, k + 1, column_rels, smarts_paths,
            IF columns[k].full_path \in smarts_paths
            THEN out
            ELSE Output(Append(out.objects, columns[k]),
                        out.relationships \o RelsTo(column_rels, columns[k].object_id),
                        out.errors))

InitModule ==
    /\ pc = "smartsData"
    /\ source \in Modules
    /\ extracted = [objects |-> <<>>, relationships |-> <<>>, errors |-> <<>>,
                    smarts_tables |-> <<>>, smarts_columns |-> <<>>]
    /\ export = [kind |-> "dir", hasContent |-> TRUE, hasPackage |-> TRUE]
    /\ config \in Configs
    /\ result = EmptyResult
    /\ docIdx = 0
    /\ nodeIdx = 0
    /\ temp_dir = None
    /\ fs = {}
    /\ docs = <<>>
    /\ dsdoc = Doc("absent", <<>>)
    /\ stages = <<>>
    /\ calls = <<>>

\* extract(): _extract_smarts_data and what extract keeps of its results
ModExtractSmarts ==
    /\ pc = "smartsData"
    /\ LET smarts == smarts_tables(source.querySubject, 1, NoSmarts) IN
       extracted' = [extracted EXCEPT
                        !.objects = smarts.objects,
                        !.relationships = smarts.relationships,
                        !.smarts_tables = smarts.tables,
                        !.smarts_columns = smarts.columns]
    /\ pc' = "tags"
    /\ UNCHANGED result
    /\ DashFrame

\* extract(): _extract_tables_and_columns, the merge, and the module object
ModExtractTags ==
    /\ pc = "tags"
    /\ LET smarts_names == Names(extracted.smarts_tables)
           smarts_paths == Paths(extracted.smarts_columns)
           tags == extract_tables_and_columns(source.tags, 1, smarts_names,
                                              smarts_paths, NoTags)
           out0 == Output(extracted.objects, extracted.relationships, extracted.errors)
           out1 == add_tag_tables(tags.tables, 1, tags.table_rels, smarts_names, out0)
           out2 == add_tag_columns(tags.columns, 1, tags.column_rels, smarts_paths, out1)
       IN extracted' = [extracted EXCEPT
              !.objects = Append(out2.objects,
                                 ChildObj(ModId, "data_module", "", "module", "", "", "")),
              !.relationships = out2.relationships]
    /\ pc' = "return"
    /\ UNCHANGED result
    /\ DashFrame

\* an extractor returns and _parse_object aggregates what it returned
AggregateExtracted ==
    /\ pc = "return"
    /\ result' = Aggregate(result,
                     Stamp(Output(extracted.objects, extracted.relationships,
                                  extracted.errors),
                           PackageFile(1), <<PackageFile(1), 1>>))
    /\ pc' = "aggregated"
    /\ UNCHANGED extracted
    /\ DashFrame

NextModule ==
    \/ ModExtractSmarts
    \/ ModExtractTags
    \/ AggregateExtracted

SpecModule == InitModule /\ [][NextModule]_vars

(***************************************************************************)
(* Expressions and their classification.  An expression is the sequence of *)
(* its lexemes: a maximal run of word characters, or one other character.  *)
(* A missing expression and the empty string are both <<>>: the two        *)
(* classifiers answer False for either.                                    *)
(***************************************************************************)
Ref2(t, c) == <<"[">> \o t \o <<"]", ".", "[">> \o c \o <<"]">>

Ref3(ds, t, c) == <<"[">> \o ds \o <<"]", ".">> \o Ref2(t, c)

Call(fn, arg) == <<fn, "(">> \o arg \o <<")">>

Binary(a, op, b) == a \o <<" ", op, " ">> \o b

CaseWhen(kw, a) ==
    <<kw[1], " ", kw[2], " ">> \o a
       \o <<" ", ">", " ", "0", " ", kw[3], " ", "1", " ", kw[4], " ", "0", " ", kw[5]>>

Refs2 == {Ref2(<<"T">>, c) : c \in {<<"C">>, <<"A">>, <<"B">>}}

Refs3 ==
    {Ref3(ds, <<"T">>, c) : ds \in {<<"DS">>, <<"bq", "-", "connection">>},
                            c \in {<<"C">>, <<"A">>}}

SimpleAggregates == {"SUM", "COUNT", "AVG", "sum"}

Functions ==
    SimpleAggregates \cup {"minimum", "maximum", "abs", "cast", "COALESCE", "IF", "min"}

Expressions ==
    {<<>>, <<"1">>, <<"Region">>, <<"current_date">>, <<"current_timestamp">>}
       \cup Refs2 \cup Refs3
       \cup {<<" ">> \o r \o <<" ">> : r \in Refs3}
       \cup {Call(fn, r) : fn \in Functions, r \in Refs2 \cup Refs3}
       \cup {Binary(a, op, b) : a \in Refs2, op \in {"+", "-", "*", "/"}, b \in Refs2}
       \cup {CaseWhen(kw, r) : kw \in {<<"CASE", "WHEN", "THEN", "ELSE", "END">>,
                                       <<"case", "when", "then", "else", "end">>},
                               r \in Refs2}

\* lexemes the patterns of CALC_EXPRESSION_PATTERNS can match (re.IGNORECASE)
CaseLexemes == {"CASE", "case"}

WhenLexemes == {"WHEN", "when"}

CallLexemes == {"IF", "if", "abs", "ABS", "minimum", "MINIMUM", "maximum", "MAXIMUM",
                "cast", "CAST", "COALESCE", "coalesce"}

DateLexemes == {"current_date", "CURRENT_DATE", "current_timestamp", "CURRENT_TIMESTAMP"}

ArithmeticLexemes == {"+", "-", "*", "/"}

\* the first position from i on that holds no whitespace
RECURSIVE skip_space(_, _)
skip_space(e, i) ==
    IF i <= Len(e) /\ e[i] = " " THEN skip_space(e, i + 1) ELSE i

\* _CALC_EXPRESSION_REGEX.search: some pattern matches somewhere
calc_expression_search(e) ==
    \E i \in DOMAIN e :
        \/ /\ e[i] \in CaseLexemes                       \* CASE\s+WHEN
           /\ i < Len(e) /\ e[i + 1] = " "
           /\ skip_space(e, i + 1) <= Len(e)
           /\ e[skip_space(e, i + 1)] \in WhenLexemes
        \/ /\ e[i] \in CallLexemes                       \* \bIF\s*\( and the like
           /\ skip_space(e, i + 1) <= Len(e)
           /\ e[skip_space(e, i + 1)] = "("
        \/ e[i] \in DateLexemes                          \* \bcurrent_date, ...
        \/ e[i] \in ArithmeticLexemes                    \* [\+\-\*\/]

expression_is_calculated_field(e) ==
    e # <<>> /\ calc_expression_search(e)

RECURSIVE strip_left(_)
strip_left(e) == IF e # <<>> /\ Head(e) = " " THEN strip_left(Tail(e)) ELSE e

RECURSIVE strip_right(_)
strip_right(e) ==
    IF e # <<>> /\ e[Len(e)] = " " THEN strip_right(SubSeq(e, 1, Len(e) - 1)) ELSE e

strip(e) == strip_right(strip_left(e))

\* the position of the first "]" from i on, or Len(e) + 1
RECURSIVE closing(_, _)
closing(e, i) ==
    IF i > Len(e) \/ e[i] = "]" THEN i ELSE closing(e, i + 1)

\* \[[^\]]+\] at position i: the position after it, or 0 when it does not match
bracketed(e, i) ==
    IF i = 0 \/ i > Len(e) \/ e[i] # "[" THEN 0
    ELSE LET j == closing(e, i + 1) IN
         IF j > Len(e) \/ j = i + 1 THEN 0 ELSE j + 1

\* \. at position i: the position after it, or 0
dot(e, i) == IF i = 0 \/ i > Len(e) \/ e[i] # "." THEN 0 ELSE i + 1

\* _SIMPLE_COLUMN_REF.match on the stripped expression
expression_is_simple_column_reference(e) ==
    /\ e # <<>>
    /\ LET t == strip(e) IN
       bracketed(t, dot(t, bracketed(t, dot(t, bracketed(t, 1))))) = Len(t) + 1

(***************************************************************************)
(* DataModuleExtractor.extract_from_specification over a specification     *)
(* whose only elements of interest are dataItem elements: the filter,      *)
(* parameter, join, hierarchy, sort and prompt routines find nothing.      *)
(***************************************************************************)
SpecParent == "r"

\* a dataItem: name, expression, the value of its RS_dataUsage XMLAttribute
\* ("" when it has none) and its aggregate attribute
DataItem(name, expression, usage, aggregate) ==
    [name |-> name, expression |-> expression, usage |-> usage, aggregate |-> aggregate]

DataItems ==
    {DataItem(n, e, u, "none") :
        n \in {"N", "M"},
        e \in {Ref3(<<"DS">>, <<"T">>, <<"C">>), Call("SUM", Ref2(<<"T">>, <<"C">>)),
               Binary(Ref2(<<"T">>, <<"A">>), "+", Ref2(<<"T">>, <<"B">>))},
        u \in {"2", ""}}
       \cup {DataItem("N", Ref3(<<"DS">>, <<"T">>, <<"C">>), "0", "total")}

RECURSIVE Join(_)
Join(e) == IF e = <<>> THEN "" ELSE Head(e) \o Join(Tail(e))

\* \[([^\]]+)\]\.\[([^\]]+)\]\.\[([^\]]+)\] at position i: the position
\* after the match, or 0
ref3_end(e, i) == bracketed(e, dot(e, bracketed(e, dot(e, bracketed(e, i)))))

\* the text of the n-th bracketed name of a reference that starts at i
RECURSIVE group(_, _, _)
group(e, i, n) ==
    IF n = 1 THEN Join(SubSeq(e, i + 1, closing(e, i + 1) - 1))
    ELSE group(e, closing(e, i + 1) + 2, n - 1)

\* re.findall of the three-part references: "<table>.<column>" of each
RECURSIVE col_refs(_, _)
col_refs(e, i) ==
    IF i > Len(e) THEN <<>>
    ELSE IF ref3_end(e, i) # 0
         THEN <<group(e, i, 2) \o "." \o group(e, i, 3)>> \o col_refs(e, ref3_end(e, i))
         ELSE col_refs(e, i + 1)

data_item_type(data_usage, aggregate) ==
    IF data_usage = "measure" \/ aggregate # "none" THEN "measure"
    ELSE IF data_usage \in {"dimension", "attribute"} THEN "dimension"
    ELSE "column"

RECURSIVE extract_data_items(_, _, _, _)
extract_data_items(items, k, seen_columns, out) ==
    IF k > Len(items) THEN out
    ELSE LET it == items[k]
             data_usage == IF it.usage \in DOMAIN DATA_USAGE_MAP
                           THEN DATA_USAGE_MAP[it.usage] ELSE "unknown"
             obj_type == data_item_type(data_usage, it.aggregate)
             column_id == SpecParent \o ":dataitem:" \o it.name
             aggregates ==
                 IF obj_type = "measure" /\ it.aggregate # "none"
                       /\ ref3_end(it.expression, 1) # 0
                 THEN <<Rel(column_id,
                            SpecParent \o ":col:" \o group(it.expression, 1, 2)
                               \o "." \o group(it.expression, 1, 3),
                            "aggregates", "", "")>>
                 ELSE <<>>
         IN IF it.name = "" \/ it.name \in seen_columns
            THEN extract_data_items(items, k + 1, seen_columns, out)
            ELSE IF expression_is_calculated_field(it.expression)
            THEN extract_data_items(items, k + 1, seen_columns \cup {it.name}, out)
            ELSE extract_data_items(items, k + 1, seen_columns \cup {it.name},
                    Output(Append(out.objects,
                               ChildObj(column_id, obj_type, SpecParent, it.name, "",
                                        "", data_usage)),
                           out.relationships \o <<Contains(SpecParent, column_id)>>
                              \o aggregates,
                           out.errors))

DependsOn(field_id, refs) ==
    [i \in DOMAIN refs |->
        Rel(field_id, SpecParent \o ":col:" \o refs[i], "depends_on", "column_reference", "")]

RECURSIVE extract_calculated_fields(_, _, _, _)
extract_calculated_fields(items, k, seen_fields, out) ==
    IF k > Len(items) THEN out
    ELSE LET it == items[k]
             field_id == SpecParent \o ":calc:" \o it.name
         IN IF \/ it.name = "" \/ it.name \in seen_fields
               \/ it.expression = <<>>
               \/ ~expression_is_calculated_field(it.expression)
            THEN extract_calculated_fields(items, k + 1, seen_fields, out)
            ELSE extract_calculated_fields(items, k + 1, seen_fields \cup {it.name},
                    Output(Append(out.objects,
                               ChildObj(field_id, "calculated_field", SpecParent,
                                        it.name, "", "", "")),
                           out.relationships \o <<Contains(SpecParent, field_id)>>
                              \o DependsOn(field_id, col_refs(it.expression, 1)),
                           out.errors))

NoOutput == Output(<<>>, <<>>, <<>>)

InitItems ==
    /\ pc = "dataItems"
    /\ source \in SeqsUpTo(DataItems, MaxDataItems)
    /\ extracted = NoOutput
    /\ export = [kind |-> "dir", hasContent |-> TRUE, hasPackage |-> TRUE]
    /\ config \in Configs
    /\ result = EmptyResult
    /\ docIdx = 0
    /\ nodeIdx = 0
    /\ temp_dir = None
    /\ fs = {}
    /\ docs = <<>>
    /\ dsdoc = Doc("absent", <<>>)
    /\ stages = <<>>
    /\ calls = <<>>

\* extract_from_specification: _extract_data_items
ItemsExtractDataItems ==
    /\ pc = "dataItems"
    /\ extracted' = extract_data_items(source, 1, {}, extracted)
    /\ pc' = "calculatedFields"
    /\ UNCHANGED result
    /\ DashFrame

\* extract_from_specification: _extract_calculated_fields and the return
ItemsExtractCalculatedFields ==
    /\ pc = "calculatedFields"
    /\ extracted' = extract_calculated_fields(source, 1, {}, extracted)
    /\ pc' = "return"
    /\ UNCHANGED result
    /\ DashFrame

NextItems ==
    \/ ItemsExtractDataItems
    \/ ItemsExtractCalculatedFields
    \/ AggregateExtracted

SpecItems == InitItems /\ [][NextItems]_vars

(***************************************************************************)
(* One field definition (identifier, expression, usage, aggregate) given   *)
(* to each routine that classifies expressions or normalizes usage.        *)
(***************************************************************************)
Usages ==
    {Usage(TRUE, "0"), Usage(TRUE, "1"), Usage(TRUE, "2"),
     Usage(FALSE, "attribute"), Usage(FALSE, "dimension"), Usage(FALSE, "measure"),
     Usage(FALSE, "fact"), Usage(FALSE, "2"), Usage(FALSE, "")}

Fields ==
    [identifier : {"k"}, expression : Expressions, usage : Usages,
     aggregate : {"", "total"}]

Routine(name, out) ==
    [routine |-> name, objects |-> out.objects, relationships |-> out.relationships,
     errors |-> out.errors]

\* faulty variant of dashboard_calculation: the entry is emitted only when
\* the shared classifier calls its expression calculated
dashboard_calculation_shared(calc) ==
    LET calc_id == DashId \o ":emb_calc:" \o calc.identifier IN
    IF \/ expression_is_simple_column_reference(calc.expression)
       \/ ~expression_is_calculated_field(calc.expression)
    THEN NoOutput
    ELSE Output(<<ChildObj(calc_id, "calculated_field", DashId, calc.identifier, "",
                           "moserJSON", usage_class(calc.usage))>>,
                <<Contains(DashId, calc_id)>>, <<>>)

\* DashboardExtractor._extract_visualizations: one entry of "calculation"
dashboard_calculation(calc) ==
    LET calc_id == DashId \o ":emb_calc:" \o calc.identifier IN
    IF expression_is_simple_column_reference(calc.expression)
    THEN NoOutput
    ELSE Output(<<ChildObj(calc_id, "calculated_field", DashId, calc.identifier, "",
                           "moserJSON", usage_class(calc.usage))>>,
                <<Contains(DashId, calc_id)>>, <<>>)

Aggregates(calc_id, refs) ==
    [i \in DOMAIN refs |-> Rel(calc_id, ModId \o ":col:" \o refs[i], "aggregates", "", "")]

ModDependsOn(calc_id, refs) ==
    [i \in DOMAIN refs |->
        Rel(calc_id, ModId \o ":col:" \o refs[i], "depends_on", "column_reference", "")]

\* DataModuleExtractor._extract_smarts_data: one entry of "calculation"
module_calculation(calc) ==
    LET calc_id == ModId \o ":emb_calc:" \o calc.identifier
        data_usage == data_usage_of(calc.usage)
        refs == col_refs(calc.expression, 1)
    IN Output(<<ChildObj(calc_id, "calculated_field", ModId, calc.identifier, "",
                         "moserJSON", data_usage)>>,
              <<Contains(ModId, calc_id)>> \o ModDependsOn(calc_id, refs)
                 \o (IF data_usage = "measure" /\ calc.aggregate # ""
                     THEN Aggregates(calc_id, refs) ELSE <<>>),
              <<>>)

InitField ==
    /\ pc = "field"
    /\ source \in Fields
    /\ extracted = Routine("", NoOutput)
    /\ export = [kind |-> "dir", hasContent |-> TRUE, hasPackage |-> TRUE]
    /\ config \in Configs
    /\ result = EmptyResult
    /\ docIdx = 0
    /\ nodeIdx = 0
    /\ temp_dir = None
    /\ fs = {}
    /\ docs = <<>>
    /\ dsdoc = Doc("absent", <<>>)
    /\ stages = <<>>
    /\ calls = <<>>

\* _expression_is_calculated_field(expression)
ClassifyExpression ==
    /\ pc = "field"
    /\ extracted' = [extracted EXCEPT
                        !.routine = IF expression_is_calculated_field(source.expression)
                                    THEN "calculated" ELSE "plain"]
    /\ pc' = "classified"
    /\ UNCHANGED result
    /\ DashFrame

\* the dashboard's embedded-calculation loop over the field
DashEmbeddedCalculation ==
    /\ pc = "field"
    /\ extracted' = Routine("dashboard", dashboard_calculation(source))
    /\ pc' = "return"
    /\ UNCHANGED result
    /\ DashFrame

\* the data module's embedded-calculation loop over the field
ModEmbeddedCalculation ==
    /\ pc = "field"
    /\ extracted' = Routine("module", module_calculation(source))
    /\ pc' = "return"
    /\ UNCHANGED result
    /\ DashFrame

\* the data module's queryItem loop over the field as the only column of a
\* querySubject: the column object of the routine's columns list
QueryItemColumn ==
    /\ pc = "field"
    /\ LET qs == QS("T", <<QI(source.identifier, source.usage, source.aggregate)>>)
           smarts == smarts_tables(<<qs>>, 1, NoSmarts)
       IN extracted' = Routine("queryItem",
                               Output(smarts.columns, smarts.relationships, <<>>))
    /\ pc' = "columns"
    /\ UNCHANGED result
    /\ DashFrame

\* extract_from_specification over the field as a dataItem element
SpecificationDataItem ==
    /\ pc = "field"
    /\ LET items == <<DataItem(source.identifier, source.expression, source.usage.text,
                               IF source.aggregate = "" THEN "none"
                               ELSE source.aggregate)>>
       IN extracted' =
             Routine("dataItem",
                     extract_calculated_fields(items, 1, {},
                         extract_data_items(items, 1, {}, NoOutput)))
    /\ pc' = "return"
    /\ UNCHANGED result
    /\ DashFrame

NextField ==
    \/ ClassifyExpression
    \/ DashEmbeddedCalculation
    \/ ModEmbeddedCalculation
    \/ QueryItemColumn
    \/ SpecificationDataItem
    \/ AggregateExtracted

SpecField == InitField /\ [][NextField]_vars

(***************************************************************************)
(* DataModuleExtractor._extract_smarts_data: the references of a module    *)
(* definition to data sources (useSpec, dataSource, package and the        *)
(* dataRetrievalMode reference).                                           *)
(***************************************************************************)
UseSpec(storeID, type) == [storeID |-> storeID, type |-> type]

DsEntry(id, storeID) == [id |-> id, storeID |-> storeID]

UseSpecs ==
    {UseSpec(st, t) : st \in {"x", "y"}, t \in {"dataSource", "module"}}
       \cup {UseSpec("", "dataSource")}

DsEntries == {DsEntry("x", ""), DsEntry("", "x"), DsEntry("y", "x")}

\* a module definition: dataRetrievalMode is the id its reference resolves
\* to, "" when it has none
Definitions ==
    [useSpec : SeqsUpTo(UseSpecs, MaxRefs), dataSource : SeqsUpTo(DsEntries, MaxRefs),
     package : SeqsUpTo(DsEntries, 1), dataRetrievalMode : {"", "x", "z"}]

RECURSIVE use_spec_rels(_, _, _)
use_spec_rels(use_specs, k, seen_use_spec_ids) ==
    IF k > Len(use_specs) THEN <<>>
    ELSE LET u == use_specs[k] IN
         IF u.storeID # "" /\ u.storeID \notin seen_use_spec_ids
         THEN <<IF u.type \in ConnectionRefTypes
                THEN Rel(ModId, u.storeID, "connects_to", "data_source", u.type)
                ELSE Rel(ModId, u.storeID, "uses", "module", u.type)>>
                 \o use_spec_rels(use_specs, k + 1, seen_use_spec_ids \cup {u.storeID})
         ELSE use_spec_rels(use_specs, k + 1, seen_use_spec_ids)

ds_id_of(ds) == IF ds.id # "" THEN ds.id ELSE ds.storeID

\* the data_source_keys loop over the entries of all keys, in key order
RECURSIVE data_source_rels(_, _, _)
data_source_rels(entries, k, seen_ds_ids) ==
    IF k > Len(entries) THEN [rels |-> <<>>, seen |-> seen_ds_ids]
    ELSE LET ds_id == ds_id_of(entries[k]) IN
         IF ds_id # "" /\ ds_id \notin seen_ds_ids
         THEN LET rest == data_source_rels(entries, k + 1, seen_ds_ids \cup {ds_id}) IN
              [rest EXCEPT !.rels = <<Rel(ModId, ds_id, "connects_to", "", "")>> \o @]
         ELSE data_source_rels(entries, k + 1, seen_ds_ids)

retrieval_rels(ds_id, seen_ds_ids) ==
    IF ds_id # "" /\ ds_id \notin seen_ds_ids
    THEN <<Rel(ModId, ds_id, "connects_to", "", "")>> ELSE <<>>

connection_rels(def) ==
    LET ds == data_source_rels(def.dataSource \o def.package, 1, {}) IN
    use_spec_rels(def.useSpec, 1, {}) \o ds.rels
       \o retrieval_rels(def.dataRetrievalMode, ds.seen)

InitConnections ==
    /\ pc = "definition"
    /\ source \in Definitions
    /\ extracted = NoOutput
    /\ export = [kind |-> "dir", hasContent |-> TRUE, hasPackage |-> TRUE]
    /\ config \in Configs
    /\ result = EmptyResult
    /\ docIdx = 0
    /\ nodeIdx = 0
    /\ temp_dir = None
    /\ fs = {}
    /\ docs = <<>>
    /\ dsdoc = Doc("absent", <<>>)
    /\ stages = <<>>
    /\ calls = <<>>

\* extract(): _extract_smarts_data over the definition, and the module object
ModExtractConnections ==
    /\ pc = "definition"
    /\ extracted' = Output(<<ChildObj(ModId, "data_module", "", "module", "", "", "")>>,
                           connection_rels(source), <<>>)
    /\ pc' = "return"
    /\ UNCHANGED result
    /\ DashFrame

NextConnections ==
    \/ ModExtractConnections
    \/ AggregateExtracted

SpecConnections == InitConnections /\ [][NextConnections]_vars

(***************************************************************************)
(* CognosParser._parse_object over the object nodes of one package         *)
(* document whose classes have no extractor.                               *)
(***************************************************************************)
\* nodes with a name element and nodes without one
PassthroughNodes ==
    {Node(cls, id, parent, "", "none", "", "") :
        cls \in {"shortcut", "URL", "query"}, id \in {"a", "b", ""}, parent \in {"", "p"}}
       \cup {Node(cls, id, parent, "", "none", "", "") @@ [name |-> "n"] :
               cls \in {"shortcut", "URL", "query"}, id \in {"a", "b", ""},
               parent \in {"", "p"}}

InitPassthrough ==
    /\ pc = "objects"
    /\ source \in SeqsUpTo(PassthroughNodes, MaxRaw)
    /\ extracted = None
    /\ export = [kind |-> "dir", hasContent |-> TRUE, hasPackage |-> TRUE]
    /\ config \in Configs
    /\ result = EmptyResult
    /\ docIdx = 1
    /\ nodeIdx = 0
    /\ temp_dir = None
    /\ fs = {}
    /\ docs = <<>>
    /\ dsdoc = Doc("absent", <<>>)
    /\ stages = <<>>
    /\ calls = <<>>

\* _parse_package_file: self._parse_object on the next object node
ParseRawObject ==
    /\ pc = "objects"
    /\ nodeIdx < Len(source)
    /\ nodeIdx' = nodeIdx + 1
    /\ result' = parse_object(result, source[nodeIdx + 1], PackageFile(docIdx),
                              <<PackageFile(docIdx), nodeIdx + 1>>)
    /\ UNCHANGED <<pc, export, config, docIdx, temp_dir, fs, docs, dsdoc, stages, calls,
                   source, extracted>>

NextPassthrough == ParseRawObject

SpecPassthrough == InitPassthrough /\ [][NextPassthrough]_vars

(***************************************************************************)
(* cognos/extractors/report_extractor.py: extract() over a report whose    *)
(* specification holds modelPath, reportRef and query elements, run twice  *)
(* over the same input.  found_model_paths is a Python set of strings: the *)
(* order in which the loop over it visits the paths is fixed by the hash   *)
(* seed of the process, so each run takes one of the orders of the set.    *)
(***************************************************************************)
ReportId == "rep"

Elem(tag, text) == [tag |-> tag, text |-> text]

SpecElems ==
    {Elem("modelPath", p) : p \in {"", " ", "123", "model", "/content/pkg"}}
       \cup {Elem("reportRef", r) : r \in {"", "x"}}
       \cup {Elem("query", q) : q \in {"", "Q"}}

found_model_paths(spec) ==
    {spec[i].text : i \in {j \in DOMAIN spec :
                              spec[j].tag = "modelPath" /\ spec[j].text # ""}}

\* the orders in which a loop can visit the elements of a set
Orders(S) == {s \in [1..Cardinality(S) -> S] : Range(s) = S}

\* the reportRef / objectRef branch of the loop over root.iter()
RECURSIVE reference_rels(_, _, _)
reference_rels(spec, k, seen_ref_ids) ==
    IF k > Len(spec) THEN <<>>
    ELSE LET ref_id == spec[k].text IN
         IF spec[k].tag = "reportRef" /\ ref_id # "" /\ ref_id \notin seen_ref_ids
         THEN <<Rel(ReportId, ref_id, "references", "", "")>>
                 \o reference_rels(spec, k + 1, seen_ref_ids \cup {ref_id})
         ELSE reference_rels(spec, k + 1, seen_ref_ids)

\* path.strip() is empty
blank(path) == path \in {"", " "}

\* path.isdigit() or (path.startswith('/') and len(path) > 10)
store_id_like(path) == path \in {"123", "/content/pkg"}

\* for path in found_model_paths, visited in the given order
RECURSIVE model_path_rels(_)
model_path_rels(order) ==
    IF order = <<>> THEN <<>>
    ELSE LET path == Head(order) IN
         (IF blank(path) THEN <<>>
          ELSE IF store_id_like(path)
               THEN <<Rel(ReportId, path, "connects_to", "data_source", "")>>
               ELSE <<Rel(ReportId, path, "uses", "data_source", "")>>)
            \o model_path_rels(Tail(order))

QueryId(query_name) == ReportId \o ":query:" \o query_name

\* the loop over the query elements
RECURSIVE report_queries(_, _, _)
report_queries(spec, k, seen_query_ids) ==
    IF k > Len(spec) THEN Output(<<>>, <<>>, <<>>)
    ELSE LET query_id == QueryId(spec[k].text) IN
         IF spec[k].tag = "query" /\ spec[k].text # "" /\ query_id \notin seen_query_ids
         THEN LET rest == report_queries(spec, k + 1, seen_query_ids \cup {query_id}) IN
              Output(<<Obj(query_id, "query", ReportId, "")>> \o rest.objects,
                     <<Rel(ReportId, query_id, "contains", "", "")>> \o rest.relationships,
                     <<>>)
         ELSE report_queries(spec, k + 1, seen_query_ids)

extract_specification(spec, order) ==
    LET queries == report_queries(spec, 1, {}) IN
    Output(queries.objects,
           reference_rels(spec, 1, {}) \o model_path_rels(order) \o queries.relationships,
           <<>>)

ReportExtract(n, order) ==
    LET spec == extract_specification(n.specification, order) IN
    Output(<<Obj(n.id, "report", n.parentId, n.storeID)>> \o spec.objects,
           ParentChild(n) \o spec.relationships,
           spec.errors)

Reports ==
    {Node("report", ReportId, parent, "", "none", "", "") @@ [specification |-> spec] :
        parent \in {"", "p"}, spec \in SeqsUpTo(SpecElems, MaxElems)}

InitReport ==
    /\ pc = "first run"
    /\ source \in Reports
    /\ extracted = <<>>
    /\ export = [kind |-> "dir", hasContent |-> TRUE, hasPackage |-> TRUE]
    /\ config \in Configs
    /\ result = EmptyResult
    /\ docIdx = 0
    /\ nodeIdx = 0
    /\ temp_dir = None
    /\ fs = {}
    /\ docs = <<>>
    /\ dsdoc = Doc("absent", <<>>)
    /\ stages = <<>>
    /\ calls = <<>>

\* one run of parse over the export whose package document holds the report:
\* the Result of the run is appended to the Results obtained so far
ParseReport ==
    /\ pc \in {"first run", "second run"}
    /\ \E order \in Orders(found_model_paths(source.specification)) :
          extracted' = Append(extracted,
              Aggregate(EmptyResult,
                        Stamp(ReportExtract(source, order), PackageFile(1),
                              <<PackageFile(1), 1>>)))
    /\ pc' = IF pc = "first run" THEN "second run" ELSE "done"
    /\ UNCHANGED result
    /\ DashFrame

NextReport == ParseReport

SpecReport == InitReport /\ [][NextReport]_vars

(***************************************************************************)
(* data_module_extractor.py: _extract_filters.  The text of a              *)
(* filterExpression is a sequence of chunks: "?", a white-space character  *)
(* " ", or "L", a run of 59 characters other than "?" and white space.     *)
(***************************************************************************)
Chunks == {"?", " ", "L"}

width(chunk) == IF chunk = "L" THEN 59 ELSE 1

\* len(expression)
RECURSIVE len(_)
len(e) == IF e = <<>> THEN 0 ELSE width(Head(e)) + len(Tail(e))

\* the position of the first "?" from i on, or Len(e) + 1
RECURSIVE question(_, _)
question(e, i) == IF i > Len(e) \/ e[i] = "?" THEN i ELSE question(e, i + 1)

\* len(re.findall(r'\?([^?]+)\?', expression)), scanning from position i
RECURSIVE param_refs(_, _)
param_refs(e, i) ==
    LET open == question(e, i)
        close == question(e, open + 1)
    IN IF open > Len(e) \/ close > Len(e) THEN 0
       ELSE IF close = open + 1 THEN param_refs(e, close)
            ELSE 1 + param_refs(e, close + 1)

\* faulty variant of is_simple_filter: parameter references are not counted
is_simple_filter_by_length(expression) == len(expression) < 120

\* is_simple = len(param_refs) == 0 and len(expression) < 120
is_simple_filter(expression) ==
    param_refs(expression, 1) = 0 /\ len(expression) < 120

FilterElem(tag, body, text) == [tag |-> tag, body |-> body, text |-> text]

\* the elements whose filterExpression holds n chunks of text; a filter
\* without filterExpression has a filterDefinition with filterInValues
\* ("inValues"), another filterDefinition ("definition") or neither ("none")
FilterElems(n) ==
    {FilterElem(tag, "expression", text) :
        tag \in {"detailFilter", "summaryFilter"}, text \in [1..n -> Chunks]}
       \cup (IF n > 0 THEN {}
             ELSE {FilterElem(tag, body, <<>>) :
                      tag \in {"detailFilter", "summaryFilter"},
                      body \in {"inValues", "definition", "none"}}
                   \cup {FilterElem("dataItem", "none", <<>>)})

\* the trees of at most m elements holding at most n chunks of text
RECURSIVE FilterRoots(_, _)
FilterRoots(m, n) ==
    IF m = 0 THEN {<<>>}
    ELSE {<<>>} \cup
         UNION {{<<el>> \o rest : el \in FilterElems(c),
                                  rest \in FilterRoots(m - 1, n - c)} :
                   c \in 0..n}

FilterObj(filter_id, parent_id, filter_type, filter_style, expression, refs, is_simple, is_complex) ==
    Obj(filter_id, "filter", parent_id, "")
       @@ [filter_type |-> filter_type, filter_style |-> filter_style,
           expression |-> expression, parameter_references |-> refs,
           is_simple |-> is_simple, is_complex |-> is_complex]

\* the body of the loop for one detailFilter / summaryFilter element
filter_of(el, parent_id, filter_idx) ==
    LET filter_id == parent_id \o ":filter:" \o ToString(filter_idx)
        filter_type == IF el.tag = "detailFilter" THEN "detail" ELSE "summary"
        expression == strip(el.text)
    IN CASE el.body = "expression" /\ el.text # <<>> ->
                FilterObj(filter_id, parent_id, filter_type, "expression", expression,
                          param_refs(expression, 1),
                          is_simple_filter(expression),
                          ~is_simple_filter(expression))
         [] el.body = "inValues" ->
                \* expression is the text built from refDataItem and the values
                FilterObj(filter_id, parent_id, filter_type, "definition", <<"L">>, 0,
                          TRUE, FALSE)
         [] el.body = "definition" ->
                FilterObj(filter_id, parent_id, filter_type, "definition", None, 0,
                          TRUE, FALSE)
         [] OTHER ->
                FilterObj(filter_id, parent_id, filter_type, "unknown", None, 0,
                          FALSE, FALSE)

RECURSIVE extract_filters(_, _, _, _)
extract_filters(root, k, parent_id, filter_idx) ==
    IF k > Len(root) THEN Output(<<>>, <<>>, <<>>)
    ELSE IF root[k].tag \notin {"detailFilter", "summaryFilter"}
         THEN extract_filters(root, k + 1, parent_id, filter_idx)
         ELSE LET obj == filter_of(root[k], parent_id, filter_idx + 1)
                  rest == extract_filters(root, k + 1, parent_id, filter_idx + 1)
              IN Output(<<obj>> \o rest.objects,
                        <<Rel(parent_id, obj.object_id, "filters_by", "", "")>>
                           \o rest.relationships,
                        <<>>)

InitFilters ==
    /\ pc = "filters"
    /\ source \in FilterRoots(MaxFilters, MaxChunks)
    /\ extracted = NoOutput
    /\ export = [kind |-> "dir", hasContent |-> TRUE, hasPackage |-> TRUE]
    /\ config \in Configs
    /\ result = EmptyResult
    /\ docIdx = 0
    /\ nodeIdx = 0
    /\ temp_dir = None
    /\ fs = {}
    /\ docs = <<>>
    /\ dsdoc = Doc("absent", <<>>)
    /\ stages = <<>>
    /\ calls = <<>>

ExtractFilters ==
    /\ pc = "filters"
    /\ extracted' = extract_filters(source, 1, SpecParent, 0)
    /\ pc' = "return"
    /\ UNCHANGED result
    /\ DashFrame

NextFilters ==
    \/ ExtractFilters
    \/ AggregateExtracted

SpecFilters == InitFilters /\ [][NextFilters]_vars

(***************************************************************************)
(* CognosParser._parse_object over the folder nodes of one package         *)
(* document, hidden or not, by parsers constructed with either value of    *)
(* include_hidden.                                                         *)
(***************************************************************************)
FolderNodes ==
    {Node("folder", id, parent, "", "none", "", "") : id \in {"a", "b"}, parent \in {"", "a"}}
       \cup {Node("folder", id, parent, "", "none", "", "") @@ [hidden |-> h] :
               id \in {"a", "b"}, parent \in {"", "a"}, h \in {"", "true", "True", "false"}}

HiddenConfigs ==
    [cleanup_temp : {TRUE}, include_hidden : BOOLEAN, continue_on_error : {TRUE}]

InitFolders ==
    /\ pc = "objects"
    /\ source \in SeqsUpTo(FolderNodes, MaxFolders)
    /\ extracted = None
    /\ export = [kind |-> "dir", hasContent |-> TRUE, hasPackage |-> TRUE]
    /\ config \in HiddenConfigs
    /\ result = EmptyResult
    /\ docIdx = 1
    /\ nodeIdx = 0
    /\ temp_dir = None
    /\ fs = {}
    /\ docs = <<>>
    /\ dsdoc = Doc("absent", <<>>)
    /\ stages = <<>>
    /\ calls = <<>>

NextFolders == ParseRawObject

SpecFolders == InitFolders /\ [][NextFolders]_vars

(***************************************************************************)
(* cognos/visualization_types.py: map_dashboard_visid_to_type.  A visId is *)
(* a sequence of tokens, each a piece of text that the replacements and    *)
(* the camelCase pattern treat as a whole: the vendor prefix, "rave", "2", *)
(* "bundle", lower-case words and a capitalised word.                      *)
(***************************************************************************)
DASHBOARD_VIS_ID_MAP ==
    ("JQGrid" :> "Data Table") @@
    ("list" :> "List") @@
    ("crosstab" :> "CrossTab") @@
    ("summary" :> "Summary") @@
    ("dataPlayer" :> "Data Player") @@
    ("com.ibm.vis.rave2bundlecolumn" :> "Clustered Column") @@
    ("com.ibm.vis.rave2bundlestackedcolumn" :> "Stacked Column") @@
    ("com.ibm.vis.rave2bundlefloatingcolumn" :> "Floating Column") @@
    ("com.ibm.vis.rave2bundlebar" :> "Clustered Bar") @@
    ("com.ibm.vis.rave2bundlestackedbar" :> "Stacked Bar") @@
    ("com.ibm.vis.rave2bundlefloatingbar" :> "Floating Bar") @@
    ("com.ibm.vis.rave2line" :> "Line") @@
    ("com.ibm.vis.raveline" :> "Line") @@
    ("com.ibm.vis.rave2bundleline" :> "Line") @@
    ("com.ibm.vis.rave2smoothline" :> "Smooth Line") @@
    ("com.ibm.vis.rave2steppedline" :> "Stepped Line") @@
    ("com.ibm.vis.rave2bundlearea" :> "Area") @@
    ("com.ibm.vis.rave2bundlestackedarea" :> "Stacked Area") @@
    ("com.ibm.vis.rave2smootharea" :> "Smooth Area") @@
    ("com.ibm.vis.rave2steppedarea" :> "Stepped Area") @@
    ("com.ibm.vis.rave2bundlepie" :> "Pie") @@
    ("com.ibm.vis.rave2bundledonut" :> "Donut") @@
    ("com.ibm.vis.ravepie" :> "Pie") @@
    ("com.ibm.vis.rave2bundlecomposite" :> "Clustered Combination") @@
    ("com.ibm.vis.rave2bundlestackedcomposite" :> "Stacked Combination") @@
    ("com.ibm.vis.rave2bundlelineandcolumn" :> "Line and Column") @@
    ("com.ibm.vis.ravescatter" :> "Scatter") @@
    ("com.ibm.vis.rave2scatter" :> "Scatter") @@
    ("com.ibm.vis.ravebubble" :> "Bubble") @@
    ("com.ibm.vis.rave2bubble" :> "Bubble") @@
    ("com.ibm.vis.rave2point" :> "Point") @@
    ("com.ibm.vis.rave2bundlebullet" :> "Bullet") @@
    ("com.ibm.vis.rave2bundlewordcloud" :> "Word Cloud") @@
    ("com.ibm.vis.rave2bundletreemap" :> "TreeMap") @@
    ("com.ibm.vis.rave2bundleradialbar" :> "Radial") @@
    ("com.ibm.vis.rave2radar" :> "Radar") @@
    ("com.ibm.vis.rave2bundlehierarchicalpackedbubble" :> "Packed Bubble") @@
    ("com.ibm.vis.rave2hierarchybubble" :> "Hierarchy Bubble") @@
    ("com.ibm.vis.rave2polygonmap" :> "Map") @@
    ("com.ibm.vis.rave2bundletiledmap" :> "Tiled Map") @@
    ("com.ibm.vis.rave2bundlemap" :> "Map") @@
    ("com.ibm.vis.legacymap" :> "Legacy Map") @@
    ("com.ibm.vis.sunburst" :> "Sunburst") @@
    ("com.ibm.vis.rave2network" :> "Network") @@
    ("com.ibm.vis.rave2marimekko" :> "Marimekko") @@
    ("com.ibm.vis.decisiontree" :> "Decision Tree") @@
    ("com.ibm.vis.driveranalysis" :> "Driver Analysis") @@
    ("com.ibm.vis.spiral" :> "Spiral") @@
    ("com.ibm.vis.rave2comet" :> "Comet") @@
    ("com.ibm.vis.rave2heat" :> "Heatmap") @@
    ("com.ibm.vis.rave2boxplot" :> "Box Plot") @@
    ("com.ibm.vis.rave2tornado" :> "Tornado") @@
    ("com.ibm.vis.rave2waterfall" :> "Waterfall") @@
    ("com.ibm.vis.rave2gantt" :> "Gantt") @@
    ("com.ibm.vis.kpi" :> "KPI") @@
    ("com.ibm.vis.rave2kpi" :> "KPI") @@
    ("dropdown" :> "Drop-down List") @@
    ("com.ibm.vis.dropdown" :> "Drop-down List") @@
    ("repeater" :> "Repeater") @@
    ("repeaterTable" :> "Repeater Table") @@
    ("singleton" :> "Singleton")

VisTokens == {"com.ibm.vis.", "rave", "2", "bundle", "line", "widgetfoo", "Bar"}

\* the text of a sequence of tokens
RECURSIVE text(_)
text(tokens) == IF tokens = <<>> THEN "" ELSE Head(tokens) \o text(Tail(tokens))

\* str.replace(old, ""): every occurrence of old, left to right
RECURSIVE remove(_, _)
remove(s, old) ==
    IF Len(s) < Len(old) THEN s
    ELSE IF SubSeq(s, 1, Len(old)) = old
         THEN remove(SubSeq(s, Len(old) + 1, Len(s)), old)
         ELSE <<Head(s)>> \o remove(Tail(s), old)

\* the four replacements, each applied to what the one before left
strip_vendor_tokens(s) ==
    remove(remove(remove(remove(s, <<"com.ibm.vis.">>), <<"rave", "2", "bundle">>),
                  <<"rave", "2">>), <<"rave">>)

Letters == {"rave", "bundle", "line", "widgetfoo", "Bar", "Rave", "Bundle", "Line", "Widgetfoo"}

\* re.sub(r'([a-z])([A-Z])', r'\1 \2', clean): a space between a lower-case
\* letter and the capital that follows it
RECURSIVE camel_to_words(_, _)
camel_to_words(s, before) ==
    IF s = <<>> THEN <<>>
    ELSE (IF Head(s) = "Bar" /\ before \in Letters THEN <<" ", "Bar">> ELSE <<Head(s)>>)
            \o camel_to_words(Tail(s), Head(s))

capitalized(token) ==
    CASE token = "rave" -> "Rave"
      [] token = "bundle" -> "Bundle"
      [] token = "line" -> "Line"
      [] token = "widgetfoo" -> "Widgetfoo"
      [] token = "com.ibm.vis." -> "Com.Ibm.Vis."
      [] OTHER -> token

\* str.title(): a letter that does not follow a letter is made upper case,
\* every other letter lower case
RECURSIVE title(_, _)
title(s, before) ==
    IF s = <<>> THEN <<>>
    ELSE <<IF before \in Letters THEN Head(s) ELSE capitalized(Head(s))>>
            \o title(Tail(s), Head(s))

\* faulty variant of map_dashboard_visid_to_type: no display name is
\* substituted when nothing is left of the visId
map_dashboard_visid_to_type_no_fallback(vis_id) ==
    IF vis_id = <<>> THEN "Unknown"
    ELSE IF text(vis_id) \in DOMAIN DASHBOARD_VIS_ID_MAP
         THEN DASHBOARD_VIS_ID_MAP[text(vis_id)]
         ELSE text(title(camel_to_words(strip_vendor_tokens(vis_id), ""), ""))

map_dashboard_visid_to_type(vis_id) ==
    IF vis_id = <<>> THEN "Unknown"
    ELSE IF text(vis_id) \in DOMAIN DASHBOARD_VIS_ID_MAP
         THEN DASHBOARD_VIS_ID_MAP[text(vis_id)]
         ELSE LET clean == camel_to_words(strip_vendor_tokens(vis_id), "") IN
              IF clean # <<>> THEN text(title(clean, "")) ELSE "Custom Viz"

InitVisId ==
    /\ pc = "visId"
    /\ source \in SeqsUpTo(VisTokens, MaxTokens)
    /\ extracted = None
    /\ export = [kind |-> "dir", hasContent |-> TRUE, hasPackage |-> TRUE]
    /\ config \in Configs
    /\ result = EmptyResult
    /\ docIdx = 0
    /\ nodeIdx = 0
    /\ temp_dir = None
    /\ fs = {}
    /\ docs = <<>>
    /\ dsdoc = Doc("absent", <<>>)
    /\ stages = <<>>
    /\ calls = <<>>

MapVisId ==
    /\ pc = "visId"
    /\ extracted' = map_dashboard_visid_to_type(source)
    /\ pc' = "mapped"
    /\ UNCHANGED result
    /\ DashFrame

NextVisId == MapVisId

SpecVisId == InitVisId /\ [][NextVisId]_vars

(***************************************************************************)
(* The extractors together: a run of any one of them over its inputs.      *)
(***************************************************************************)
InitExtractors == InitDashboard \/ InitModule \/ InitItems \/ InitField

NextExtractors == NextDashboard \/ NextModule \/ NextItems \/ NextField

SpecExtractors == InitExtractors /\ [][NextExtractors]_vars

Next ==
    \/ Validate
    \/ Prepare
    \/ ParseManifest
    \/ ParsePackages
    \/ ParsePackageFile
    \/ ParseObject
    \/ ParseDataSources
    \/ CreateDataSourceConnections
    \/ CalculateStats
    \/ StageRaises
    \/ Finally

Spec == Init /\ [][Next]_vars

(***************************************************************************)
(* Properties of the aggregator (SpecAgg).                                 *)
(***************************************************************************)
RECURSIVE FirstWrites(_, _)
FirstWrites(cs, ids) ==
    IF cs = <<>> THEN <<>>
    ELSE IF Head(cs).object_id \in ids
         THEN FirstWrites(Tail(cs), ids)
         ELSE <<Head(cs)>> \o FirstWrites(Tail(cs), ids \cup {Head(cs).object_id})

HasId(objs, id) == \E i \in DOMAIN objs : objs[i].object_id = id

\* C1: for any sequence of add_object calls on one ParseResult, the objects
\* list never holds two objects with the same object_id, the object retained
\* for an id is the one passed by the first call with that id, and a call with
\* an id already present changes nothing.
C1_FirstWriteWins ==
    [][ /\ \A i, j \in DOMAIN result'.objects :
              result'.objects[i].object_id = result'.objects[j].object_id => i = j
        /\ result'.objects = FirstWrites(calls', {})
        /\ (calls' # calls /\ HasId(result.objects, calls'[Len(calls')].object_id))
              => result' = result ]_vars

\* add_object was called a second time with an id already present and an
\* object that differs from the retained one.
C1_Witness ==
    \E i, j \in DOMAIN calls :
        /\ i < j
        /\ calls[i].object_id = calls[j].object_id
        /\ calls[i] # calls[j]
        /\ \E k \in DOMAIN result.objects : result.objects[k] = calls[i]

(***************************************************************************)
(* Properties of the parse pipeline (Spec).                                *)
(***************************************************************************)
StageCount(name) == Cardinality({i \in DOMAIN stages : stages[i] = name})

Ran(name) == \E i \in DOMAIN stages : stages[i] = name

\* the raw object nodes of the package documents: <<document, node>> indexes
RawNodes ==
    {dk \in (DOMAIN docs) \X (1..MaxNodes + 1) :
        docs[dk[1]].status = "ok" /\ dk[2] \in DOMAIN docs[dk[1]].nodes}

NodeAt(dk) == docs[dk[1]].nodes[dk[2]]

OriginOf(dk) == <<PackageFile(dk[1]), dk[2]>>

\* _parse_object has returned for the node
Processed(dk) ==
    \/ pc \in {"datasources", "resolve", "stats", "finally", "returned"}
    \/ pc \in {"doc", "object"} /\ dk[1] < docIdx
    \/ pc = "object" /\ dk[1] = docIdx /\ dk[2] < nodeIdx

ObjectsFrom(o) == {i \in DOMAIN result.objects : result.objects[i].origin = o}

RelsFrom(o) ==
    {i \in DOMAIN result.relationships : result.relationships[i].origin = o}

DiagsFrom(o, level) ==
    {i \in DOMAIN result.errors :
        result.errors[i].origin = o /\ result.errors[i].level = level}

\* the objects extraction of a node yields when it does not fail
NodeObjects(n) ==
    LET object_type == object_type_map(n.cls) IN
    IF object_type \in ExtractorTypes
    THEN Extract(object_type, n).objects
    ELSE Fallback(n, object_type).objects

\* dispatch of the node raises, or its extractor reports a failure
NodeFails(n) ==
    \/ n.blob = "raises"
    \/ object_type_map(n.cls) = "dashboard" /\ n.blob \in {"notobject", "badsources"}

C3_NodeFailureIsolated ==
    /\ \A dk \in RawNodes :
          Processed(dk) =>
             /\ DiagsFrom(OriginOf(dk), "critical") = {}
             /\ NodeFails(NodeAt(dk)) =>
                    DiagsFrom(OriginOf(dk), "warning")
                        \cup DiagsFrom(OriginOf(dk), "error") # {}
             /\ NodeAt(dk).blob # "raises" =>
                    \A o \in Range(NodeObjects(NodeAt(dk))) :
                        HasId(result.objects, o.object_id)
    /\ (pc \in {"datasources", "resolve", "stats", "finally", "returned"}
           /\ docs # <<>>) =>
          StageCount("object") = Cardinality(RawNodes)
    /\ (pc = "returned" /\ docs # <<>> /\ ~Ran("except")) =>
          Ran("resolve") /\ Ran("stats")

\* a run has returned in which a node failed and a node after it, in the same
\* or in a later document, put its object into the Result.
C3_Witness ==
    /\ pc = "returned"
    /\ Ran("stats")
    /\ \E dk, later \in RawNodes :
          /\ NodeFails(NodeAt(dk))
          /\ later[1] > dk[1] \/ (later[1] = dk[1] /\ later[2] > dk[2])
          /\ ~NodeFails(NodeAt(later))
          /\ ObjectsFrom(OriginOf(later)) # {}

\* C4: whenever extraction of a whole raw object fails and an error-level
\* diagnostic is recorded for it, the Result holds no object and no
\* relationship produced from that raw object.
C4_FailedObjectSkipped ==
    \A dk \in RawNodes :
        (Processed(dk) /\ DiagsFrom(OriginOf(dk), "error") # {}) =>
            /\ ObjectsFrom(OriginOf(dk)) = {}
            /\ RelsFrom(OriginOf(dk)) = {}

\* the nodes whose embedded JSON text cannot be decoded
Undecodable ==
    {dk \in RawNodes :
        /\ Processed(dk)
        /\ NodeAt(dk).blob = "notjson"
        /\ object_type_map(NodeAt(dk).cls) \in {"dashboard", "data_module"}}

UndecodedParentOnly(dk) ==
    /\ HasId(result.objects, NodeAt(dk).id)
    /\ \A i \in ObjectsFrom(OriginOf(dk)) :
          result.objects[i].object_id = NodeAt(dk).id
    /\ DiagsFrom(OriginOf(dk), "error") = {}
    /\ DiagsFrom(OriginOf(dk), "critical") = {}

Last(seq) == seq[Len(seq)]

\* C6 as stated: when an exception escapes a top-level stage, the returned
\* Result holds only a single critical diagnostic: no objects, no
\* relationships and no other diagnostics.
C6_AbortedResultOnlyCritical ==
    (pc = "returned" /\ Ran("except")) =>
        /\ result.objects = <<>>
        /\ result.relationships = <<>>
        /\ Len(result.errors) = 1
        /\ result.errors[1].level = "critical"

\* C6 as amended: when an exception escapes a top-level stage, one critical
\* diagnostic is appended to the Result and everything accumulated before
\* it (objects, relationships, statistics, diagnostics) is retained; no
\* further stage runs and the Result is returned as it then stands.
C6_AbortKeepsAccumulated ==
    [][ /\ stages' = Append(stages, "except") =>
              /\ result'.objects = result.objects
              /\ result'.relationships = result.relationships
              /\ result'.stats = result.stats
              /\ Len(result'.errors) = Len(result.errors) + 1
              /\ SubSeq(result'.errors, 1, Len(result.errors)) = result.errors
              /\ Last(result'.errors).level = "critical"
              /\ \A i \in DOMAIN result.errors : result.errors[i].level # "critical"
              /\ pc' = "finally"
        /\ Ran("except") =>
              /\ result' = result
              /\ stages' = Append(stages, "finally")
              /\ pc' = "returned" ]_vars

\* an aborted run has returned a Result that holds an object.
C6_Witness ==
    /\ pc = "returned"
    /\ Ran("except")
    /\ result.objects # <<>>
    /\ Last(result.errors).level = "critical"

StageRank(name) ==
    CASE name = "validate" -> 0
      [] name = "prepare" -> 1
      [] name = "manifest" -> 2
      [] name = "packages" -> 3
      [] name \in {"doc", "object"} -> 4
      [] name = "datasources" -> 5
      [] name = "resolve" -> 6
      [] name = "stats" -> 7
      [] name = "except" -> 8
      [] name = "finally" -> 9

StagesInOrder ==
    /\ \A i \in 1..(Len(stages) - 1) : StageRank(stages[i]) <= StageRank(stages[i + 1])
    /\ \A name \in {"manifest", "packages", "datasources", "resolve", "stats"} :
          StageCount(name) <= 1
    /\ Ran("resolve") =>
          /\ Ran("manifest") /\ Ran("packages") /\ Ran("datasources")
          /\ StageCount("doc") = Len(docs)
          /\ StageCount("object") = Cardinality(RawNodes)
    /\ Ran("stats") => Ran("resolve")

\* C9 as stated: in every run that passes validation the stages occur in the
\* order manifest, package documents, data-source document, resolution,
\* statistics, the resolver runs exactly once after every raw object node
\* has been dispatched, and calculate_stats runs once after the resolver.
C9_StagesExactlyOnce ==
    [][ /\ StagesInOrder'
        /\ Ran("resolve")' => result'.objects = result.objects
        /\ (pc' = "returned" /\ validate_export(export)) =>
              (StageCount("resolve") = 1 /\ StageCount("stats") = 1)' ]_vars

\* C9 as amended: in every run that passes validation the stages that run
\* occur in the order manifest, package documents, data-source document,
\* resolution, statistics; the resolver runs at most once and only after
\* every raw object node has been dispatched and aggregated, no object is
\* added once the resolver has started, calculate_stats runs at most once
\* and only after the resolver; a run that no escaping exception aborts
\* runs the resolver and calculate_stats exactly once each.
C9_StageOrder ==
    [][ /\ StagesInOrder'
        /\ Ran("resolve")' => result'.objects = result.objects
        /\ (pc' = "returned" /\ validate_export(export) /\ ~Ran("except")') =>
              (StageCount("resolve") = 1 /\ StageCount("stats") = 1)' ]_vars

\* a run over two package documents has returned after resolution and
\* statistics.
C9_Witness ==
    /\ pc = "returned"
    /\ Len(docs) = 2
    /\ Cardinality(RawNodes) = 2
    /\ StageCount("resolve") = 1
    /\ StageCount("stats") = 1
    /\ result.objects # <<>>

\* C10: every Result returned by parse has been finalized by calculate_stats
\* over its final contents: total_objects, total_relationships and
\* total_errors of its stats equal the lengths of its lists.
C10_ReturnedResultFinalized ==
    pc = "returned" =>
        /\ {"total_objects", "total_relationships", "total_errors"}
              \subseteq DOMAIN result.stats
        /\ result.stats["total_objects"] = Len(result.objects)
        /\ result.stats["total_relationships"] = Len(result.relationships)
        /\ result.stats["total_errors"] = Len(result.errors)

(***************************************************************************)
(* Properties of the resolver (SpecResolve).                               *)
(***************************************************************************)
ConnectsToAt(rels, i) == rels[i].relationship_type = "connects_to"

SamePair(r, q) == r.source_id = q.source_id /\ r.target_id = q.target_id

\* C7: cross-reference resolution never produces two connects_to edges with
\* the same (source_id, target_id): every edge it adds is a connects_to edge
\* whose pair no other connects_to edge of the Result has, whether that
\* edge was there before or was added in the same pass.
C7_NoDuplicateConnectsTo ==
    [][ stages' = Append(stages, "resolve") =>
          LET old == result.relationships
              new == result'.relationships
          IN /\ Len(new) >= Len(old)
             /\ SubSeq(new, 1, Len(old)) = old
             /\ \A i \in (Len(old) + 1)..Len(new) :
                   /\ ConnectsToAt(new, i)
                   /\ \A j \in DOMAIN new :
                         (j # i /\ ConnectsToAt(new, j)) => ~SamePair(new[i], new[j]) ]_vars

\* the resolver has added an edge although two uses edges asked for the
\* same pair.
C7_Witness ==
    /\ pc = "stats"
    /\ \E i, j \in DOMAIN result.relationships :
          /\ i < j
          /\ result.relationships[i].relationship_type = "uses"
          /\ result.relationships[j].relationship_type = "uses"
          /\ SamePair(result.relationships[i], result.relationships[j])
          /\ \E k \in DOMAIN result.relationships :
                /\ result.relationships[k].origin = <<"resolver", 0>>
                /\ result.relationships[k].source_id = result.relationships[i].source_id

\* C8: after the resolver has run, for every uses edge whose target_id is a
\* key of the index the resolver built, the Result holds a connects_to edge
\* from the same source_id to the object id the index maps the key to.
C8_UsesResolved ==
    [][ stages' = Append(stages, "resolve") =>
          LET index == data_sources_by_store_id(result) IN
          \A i \in DOMAIN result'.relationships :
             LET rel == result'.relationships[i] IN
             (rel.relationship_type = "uses" /\ rel.target_id \in DOMAIN index)
                => HasConnectsTo(result', rel.source_id, index[rel.target_id]) ]_vars

\* the resolver has run over a source with uses edges to two indexed
\* identifiers and the Result holds a connects_to edge for each.
C8_Witness ==
    /\ pc = "stats"
    /\ LET index == data_sources_by_store_id(result) IN
       \E i, j \in DOMAIN result.relationships :
          LET r == result.relationships[i]
              q == result.relationships[j]
          IN /\ r.relationship_type = "uses" /\ q.relationship_type = "uses"
             /\ r.source_id = q.source_id
             /\ r.target_id \in DOMAIN index /\ q.target_id \in DOMAIN index
             /\ index[r.target_id] # index[q.target_id]
             /\ HasConnectsTo(result, r.source_id, index[r.target_id])
             /\ HasConnectsTo(result, q.source_id, index[q.target_id])

(***************************************************************************)
(* Claims about the extractors                                             *)
(***************************************************************************)
ParentsKept(before, after) ==
    \A i \in DOMAIN before :
        /\ i \in DOMAIN after
        /\ after[i].object_id = before[i].object_id
        /\ after[i].parent_id = before[i].parent_id

IsTabOf(id, objects) ==
    \E i \in DOMAIN objects :
        objects[i].object_type = "tab" /\ objects[i].object_id = id

\* C11: the parent_id of an object never changes once the object is in the
\* Result, nor once the extractor has put it in its output; the only
\* reassignment is that of a widget from the dashboard to its tab, at most
\* once per widget and before the widget leaves _process_widget.
C11_ParentFixedAfterAdd ==
    [][/\ ParentsKept(result.objects, result'.objects)
       /\ ParentsKept(extracted.objects, extracted'.objects)
       /\ extracted'.moves <= 1
       /\ extracted'.moves > extracted.moves =>
             /\ pc = "place"
             /\ extracted.viz_obj.parent_id = DashId
             /\ IsTabOf(Last(extracted'.objects).parent_id, extracted.objects)
       /\ (pc' = "aggregated" /\ pc # "aggregated") =>
             \A i \in DOMAIN extracted.objects :
                 \E j \in DOMAIN result'.objects :
                     /\ result'.objects[j].object_id = extracted.objects[i].object_id
                     /\ result'.objects[j].parent_id \in
                            {extracted.objects[k].parent_id :
                                k \in {k \in DOMAIN extracted.objects :
                                         extracted.objects[k].object_id
                                            = extracted.objects[i].object_id}}
      ]_vars

C11_Witness ==
    /\ pc = "aggregated"
    /\ \E i \in DOMAIN result.objects :
          /\ result.objects[i].object_type = "visualization"
          /\ IsTabOf(result.objects[i].parent_id, result.objects)

TagTables == {source.tags[i].table : i \in DOMAIN source.tags}

RichTables == {source.querySubject[i].name : i \in DOMAIN source.querySubject}

TagColumns == {tag_value(source.tags[i]) : i \in {i \in DOMAIN source.tags :
                                                     source.tags[i].column # ""}}

RichColumns ==
    UNION {{source.querySubject[i].name \o "." \o source.querySubject[i].queryItem[j].name :
               j \in DOMAIN source.querySubject[i].queryItem} :
           i \in DOMAIN source.querySubject}

ColumnTypes == {"column", "measure", "dimension"}

TablesNamed(name) ==
    {i \in DOMAIN result.objects :
        result.objects[i].object_type = "table" /\ result.objects[i].name = name}

ColumnsAt(path) ==
    {i \in DOMAIN result.objects :
        /\ result.objects[i].object_type \in ColumnTypes
        /\ result.objects[i].full_path = path}

\* C12: when a data module with a tags list and a smartsData blob has been
\* extracted and aggregated, the Result holds exactly one table object per
\* table name of either source and exactly one column object per
\* (table, column) pair of either source: the one of smartsData when it has
\* one, the one of the tags otherwise.
C12_OneObjectPerName ==
    pc = "aggregated" =>
        /\ \A t \in TagTables \cup RichTables :
              /\ Cardinality(TablesNamed(t)) = 1
              /\ \A i \in TablesNamed(t) :
                    result.objects[i].source
                       = IF t \in RichTables THEN "moserJSON" ELSE "tags"
        /\ \A p \in TagColumns \cup RichColumns :
              /\ Cardinality(ColumnsAt(p)) = 1
              /\ \A i \in ColumnsAt(p) :
                    result.objects[i].source
                       = IF p \in RichColumns THEN "moserJSON" ELSE "tags"

ContainsEdges(src, tgt) ==
    {i \in DOMAIN result.relationships :
        /\ result.relationships[i].relationship_type = "contains"
        /\ result.relationships[i].source_id = src
        /\ result.relationships[i].target_id = tgt}

TabRefs == Range(source.tabs[1].widgets)

WidgetIdsOf == TabRefs \cup {source.widgets[i].id : i \in DOMAIN source.widgets}

WidgetObjId(w) == DashId \o ":widget:" \o w

Unparented == {i \in DOMAIN source.widgets : source.widgets[i].id \notin TabRefs}

\* a specification with one tab that lists two widget ids and one widget
\* defined outside the tab
OneTabTwoWidgets ==
    /\ Len(source.tabs) = 1
    /\ source.tabs[1].id # ""
    /\ Len(source.tabs[1].widgets) = 2
    /\ Cardinality(TabRefs) = 2
    /\ Cardinality(Unparented) = 1
    /\ \A i \in Unparented : source.widgets[i].viz

\* C13: for a dashboard specification with one tab that contains two widget
\* ids and one widget defined outside any tab, the Result holds exactly one
\* tab object, exactly one contains edge dashboard -> tab, exactly two
\* contains edges tab -> widget and exactly one contains edge from the
\* dashboard to the unparented widget.
C13_TabScenarioCounts ==
    (pc = "aggregated" /\ OneTabTwoWidgets) =>
        LET tab_id == TabId(source.tabs[1], 0) IN
        /\ Cardinality({i \in DOMAIN result.objects :
                           result.objects[i].object_type = "tab"}) = 1
        /\ Cardinality(ContainsEdges(DashId, tab_id)) = 1
        /\ Cardinality(UNION {ContainsEdges(tab_id, WidgetObjId(w)) :
                                 w \in WidgetIdsOf}) = 2
        /\ \A i \in Unparented :
              Cardinality(ContainsEdges(DashId, WidgetObjId(source.widgets[i].id))) = 1

ItemNames == {source[i].name : i \in DOMAIN source}

\* C14: extract_from_specification never emits, for one parent and one
\* dataItem name N, both the column/measure/dimension object P:dataitem:N
\* and the calculated_field object P:calc:N, also when names repeat.
C14_NeverBothKinds ==
    pc \in {"return", "aggregated"} =>
        \A n \in ItemNames :
            ~ /\ SpecParent \o ":dataitem:" \o n \in Ids(extracted.objects)
              /\ SpecParent \o ":calc:" \o n \in Ids(extracted.objects)

\* a bare [source].[table].[column] reference
BareReferences == Refs3 \cup {<<" ">> \o r \o <<" ">> : r \in Refs3}

\* a bare simple aggregate of one column
BareAggregates == {Call(fn, r) : fn \in SimpleAggregates, r \in Refs2 \cup Refs3}

\* the constructs the classifier is said to look for
HasCalculationSyntax(e) ==
    \E i \in DOMAIN e :
        e[i] \in CaseLexemes \cup CallLexemes \cup DateLexemes \cup ArithmeticLexemes

\* C15: the classifier answers true only for expressions with CASE/IF,
\* COALESCE/cast, current-date/timestamp, minimum/maximum/abs calls or an
\* arithmetic operator, and false for every bare [source].[table].[column]
\* reference and every bare simple aggregate of one column; [DS].[T].[C]
\* and SUM([T].[C]) are not calculated, CASE WHEN [T].[C] > 0 THEN 1 ELSE 0
\* END and [T].[A] + [T].[B] are.
C15_ClassifierCategories ==
    pc = "classified" =>
        LET e == source.expression
            calculated == extracted.routine = "calculated"
        IN /\ calculated => HasCalculationSyntax(e)
           /\ e \in BareReferences \cup BareAggregates => ~calculated
           /\ e \in {Ref3(<<"DS">>, <<"T">>, <<"C">>), Call("SUM", Ref2(<<"T">>, <<"C">>))}
                 => ~calculated
           /\ e \in {CaseWhen(<<"CASE", "WHEN", "THEN", "ELSE", "END">>, Ref2(<<"T">>, <<"C">>)),
                     Binary(Ref2(<<"T">>, <<"A">>), "+", Ref2(<<"T">>, <<"B">>))}
                 => calculated

EmittedCalculations ==
    {i \in DOMAIN extracted.objects :
        extracted.objects[i].object_type = "calculated_field"}

\* C16 as stated: the dashboard emits an embedded calculation as a
\* calculated_field only if the shared classifier calls its expression
\* calculated, and a single [x].[y].[z] reference or a bare simple aggregate
\* yields no calculated_field object.
C16_DashboardUsesSharedClassifier ==
    (pc = "return" /\ extracted.routine = "dashboard") =>
        /\ EmittedCalculations # {} => expression_is_calculated_field(source.expression)
        /\ source.expression \in BareReferences \cup BareAggregates
              => EmittedCalculations = {}

\* C16, amended: the dashboard emits an embedded calculation as one
\* calculated_field object "<dashboard>:emb_calc:<identifier>" unless its
\* expression is a single [x].[y].[z] reference; such a reference yields no
\* object, a bare simple aggregate yields one, and what is emitted reaches
\* the Result.
C16_DashboardSkipsOnlySimpleReferences ==
    (pc \in {"return", "aggregated"} /\ extracted.routine = "dashboard") =>
        /\ source.expression \in BareReferences <=> EmittedCalculations = {}
        /\ source.expression \notin BareReferences =>
              /\ Len(extracted.objects) = 1
              /\ extracted.objects[1].object_id
                    = DashId \o ":emb_calc:" \o source.identifier
              /\ extracted.objects[1].parent_id = DashId
              /\ pc = "aggregated" =>
                    extracted.objects[1].object_id \in Ids(result.objects)

C16_Witness ==
    /\ pc = "aggregated"
    /\ extracted.routine = "dashboard"
    /\ source.expression \in BareAggregates
    /\ DashId \o ":emb_calc:" \o source.identifier \in Ids(result.objects)

\* the class the two encodings of a usage code stand for
UsageClass ==
    [u \in {Usage(TRUE, "2"), Usage(FALSE, "measure"), Usage(TRUE, "1"),
            Usage(FALSE, "dimension"), Usage(TRUE, "0"), Usage(FALSE, "attribute")} |->
        IF u.text \in {"2", "measure"} THEN "measure"
        ELSE IF u.text \in {"1", "dimension"} THEN "dimension" ELSE "attribute"]

\* the objects of a routine that carry a normalized usage
Normalized ==
    {i \in DOMAIN extracted.objects :
        \/ extracted.objects[i].object_type \in ColumnTypes
        \/ extracted.routine \in {"dashboard", "module"}}

\* C17: every routine that normalizes usage (specification dataItems,
\* data-module query items and calculations, dashboard embedded
\* calculations) maps 2 and "measure" to measure, 1 and "dimension" to
\* dimension, 0 and "attribute" to attribute, and types an
\* attribute-classified column as a dimension object.
C17_UsageNormalizedAlike ==
    (pc \in {"return", "columns"} /\ source.usage \in DOMAIN UsageClass) =>
        \A i \in Normalized :
            /\ extracted.objects[i].data_usage = UsageClass[source.usage]
            /\ (/\ extracted.objects[i].object_type \in ColumnTypes
                /\ UsageClass[source.usage] = "attribute")
                  => extracted.objects[i].object_type = "dimension"

ModuleConnectsTo(target) ==
    {i \in DOMAIN extracted.relationships :
        /\ extracted.relationships[i].relationship_type = "connects_to"
        /\ extracted.relationships[i].source_id = ModId
        /\ extracted.relationships[i].target_id = target}

\* C18: the data module extractor emits at most one connects_to edge from
\* the module to any one external id, across useSpec, dataSource, package
\* and the dataRetrievalMode reference.
C18_OneConnectsToPerTarget ==
    pc \in {"return", "aggregated"} =>
        \A t \in {"x", "y", "z"} : Cardinality(ModuleConnectsTo(t)) <= 1

\* the objects and edges of the Result that the k-th node produced
PassedObjects(k) ==
    {i \in DOMAIN result.objects : result.objects[i].origin = <<PackageFile(docIdx), k>>}

PassedEdges(k) ==
    {i \in DOMAIN result.relationships :
        result.relationships[i].origin = <<PackageFile(docIdx), k>>}

Unrecognized(k) == object_type_map(source[k].cls) = "unknown"

\* the object and the edge of the generic passthrough for the k-th node
PassthroughObject(k) ==
    /\ Cardinality(PassedObjects(k)) = 1
    /\ \A i \in PassedObjects(k) :
          /\ result.objects[i].object_type = "unknown"
          /\ result.objects[i].object_id = source[k].id
          /\ result.objects[i].name = NameOf(source[k])
          /\ result.objects[i].cognosClass = source[k].cls

PassthroughEdge(k) ==
    IF source[k].parentId = "" THEN PassedEdges(k) = {}
    ELSE /\ Cardinality(PassedEdges(k)) = 1
         /\ \A i \in PassedEdges(k) :
               /\ result.relationships[i].relationship_type = "parent_child"
               /\ result.relationships[i].source_id = source[k].parentId
               /\ result.relationships[i].target_id = source[k].id

EarlierId(k) == \E j \in 1..(k - 1) : source[j].id = source[k].id

\* C19 as stated: every object node whose class is not in the dispatch
\* table yields one object of kind unknown with the node's id, name and raw
\* class, and one parent_child edge from its parent when it has one.
C19_PassthroughYieldsObject ==
    \A k \in 1..nodeIdx :
        Unrecognized(k) => PassthroughObject(k) /\ PassthroughEdge(k)

\* C19, amended: every object node whose class is not in the dispatch table
\* yields one parent_child edge from its parent when it has one, and one
\* object of kind unknown with the node's id, name and raw class unless the
\* Result already holds an object of that id, in which case it yields none.
C19_PassthroughUnlessIdHeld ==
    \A k \in 1..nodeIdx :
        Unrecognized(k) =>
            /\ PassthroughEdge(k)
            /\ IF EarlierId(k) THEN PassedObjects(k) = {} ELSE PassthroughObject(k)

C19_Witness ==
    /\ nodeIdx = 2
    /\ Unrecognized(1) /\ Unrecognized(2)
    /\ EarlierId(2)
    /\ source[2].parentId # ""
    /\ PassedObjects(2) = {}
    /\ PassthroughObject(1)

KindTags == {"tab", "widget", "table", "col", "dataitem", "calc", "emb_calc"}

TableNames == {"T", "U", "V"}

LocalKeys ==
    {WidgetId(i) : i \in 1..(MaxWidgets + 1)} \cup {ToString(i) : i \in 0..(MaxTabs + 1)}
       \cup {"t", "u", "N", "M", "k", "c", "d"} \cup TableNames
       \cup {tn \o "." \o c : tn \in TableNames, c \in {"c", "d", "k"}}

\* the ids <parent>:<localKindTag>:<localKey>
IdsUnder(parent) ==
    {parent \o ":" \o tag \o ":" \o key : tag \in KindTags, key \in LocalKeys}

Owners == {DashId, ModId, SpecParent}

IdsUnderOwner == [owner \in Owners |-> IdsUnder(owner)]

\* id is <parent>:<localKindTag>:<localKey>
SyntheticForm(id, parent) ==
    IF parent \in Owners THEN id \in IdsUnderOwner[parent] ELSE id \in IdsUnder(parent)

\* the objects an extractor emitted below the object it was run for
SyntheticChildren ==
    {i \in DOMAIN extracted.objects :
        extracted.objects[i].object_type \notin {"dashboard", "data_module"}}

ObjectIds(res) == [i \in DOMAIN res.objects |-> res.objects[i].object_id]

Triples(res) ==
    [i \in DOMAIN res.relationships |->
        <<res.relationships[i].source_id, res.relationships[i].target_id,
          res.relationships[i].relationship_type>>]

\* C21: two runs of parse over the same input produce the same ordered
\* sequence of object ids and the same ordered sequence of relationships
\* (source_id, target_id, kind).
C21_RunsAgree ==
    pc = "done" =>
        /\ ObjectIds(extracted[1]) = ObjectIds(extracted[2])
        /\ Triples(extracted[1]) = Triples(extracted[2])

IsPrefix(s, t) == Len(s) <= Len(t) /\ SubSeq(t, 1, Len(s)) = s

Called(operation) == stages' = Append(stages, operation)

\* C22: every Result operation is append-only: each of the objects,
\* relationships and diagnostics lists before an operation is a prefix of
\* the same list after it; add_relationship and add_error append exactly
\* one entry, the one given, whether or not an equal entry is present, and
\* leave the other two lists unchanged.
C22_AppendOnly ==
    [][/\ IsPrefix(result.objects, result'.objects)
       /\ IsPrefix(result.relationships, result'.relationships)
       /\ IsPrefix(result.errors, result'.errors)
       /\ Called("add_relationship") =>
             /\ \E rel \in AggRels :
                   result'.relationships = Append(result.relationships, rel)
             /\ result'.objects = result.objects
             /\ result'.errors = result.errors
       /\ Called("add_error") =>
             /\ \E err \in AggErrs : result'.errors = Append(result.errors, err)
             /\ result'.objects = result.objects
             /\ result'.relationships = result.relationships]_vars

\* the same edge added twice is held twice, next to a diagnostic
C22_Witness ==
    /\ pc = "aggregate"
    /\ Len(result.relationships) = 2
    /\ result.relationships[1] = result.relationships[2]
    /\ Len(result.errors) = 1

(***************************************************************************)
(* Claims about filters                                                    *)
(***************************************************************************)
\* the expression holds a "?", one or more characters other than "?", and a "?"
HasParamReference(e) ==
    \E i, j \in DOMAIN e :
        /\ j > i + 1
        /\ e[i] = "?" /\ e[j] = "?"
        /\ \A k \in (i + 1)..(j - 1) : e[k] # "?"

ExpressionFilters ==
    {i \in DOMAIN extracted.objects :
        extracted.objects[i].filter_style = "expression"}

\* C23: for an expression-based filter, is_simple holds exactly when the
\* expression has fewer than 120 characters and contains no ?Param?
\* reference, is_complex holds exactly when the expression has a parameter
\* reference or length at least 120, and no filter is both simple and complex.
C23_FilterClassification ==
    pc = "return" =>
        /\ \A i \in ExpressionFilters :
              LET o == extracted.objects[i] IN
              /\ o.is_simple <=>
                    (len(o.expression) < 120 /\ ~HasParamReference(o.expression))
              /\ o.is_complex <=>
                    (HasParamReference(o.expression) \/ len(o.expression) >= 120)
        /\ \A i \in DOMAIN extracted.objects :
              ~(extracted.objects[i].is_simple /\ extracted.objects[i].is_complex)

\* a filter whose expression has no parameter reference and exactly 120
\* characters is complex
C23_Witness ==
    /\ pc = "return"
    /\ \E i \in ExpressionFilters :
          /\ len(extracted.objects[i].expression) = 120
          /\ ~HasParamReference(extracted.objects[i].expression)
          /\ extracted.objects[i].is_complex

(***************************************************************************)
(* Claims about the configuration                                          *)
(***************************************************************************)
Hidden(o) == "hidden" \in DOMAIN o /\ o.hidden

\* C24: with include_hidden set to False, no object whose hidden property
\* is true appears in the Result of parse.
C24_HiddenExcluded ==
    (nodeIdx = Len(source) /\ ~config.include_hidden) =>
        \A i \in DOMAIN result.objects : ~Hidden(result.objects[i])

(***************************************************************************)
(* Claims about the visualization types                                    *)
(***************************************************************************)
InTable == text(source) \in DOMAIN DASHBOARD_VIS_ID_MAP

\* the visId with the vendor-prefix and version tokens stripped, camelCase
\* boundaries turned into spaces, in Title Case
Cleaned == text(title(camel_to_words(strip_vendor_tokens(source), ""), ""))

\* C25 as stated: the table's display name for every identifier in the
\* table; for an identifier not in the table the identifier with the tokens
\* stripped, camelCase boundaries turned into spaces and Title-Cased
\* ("com.ibm.vis.rave2bundlewidgetfoo" gives "Widgetfoo"); never an empty
\* string.
C25_TableOrCleaned ==
    pc = "mapped" =>
        /\ InTable => extracted = DASHBOARD_VIS_ID_MAP[text(source)]
        /\ ~InTable => extracted = Cleaned
        /\ text(source) = "com.ibm.vis.rave2bundlewidgetfoo" => extracted = "Widgetfoo"
        /\ extracted # ""

\* C25, amended: the table's display name for every identifier in the
\* table; for an identifier not in the table, "Unknown" when the identifier
\* is empty, "Custom Viz" when nothing is left of it once the tokens are
\* stripped, and otherwise the identifier with the tokens stripped, camelCase
\* boundaries turned into spaces and Title-Cased; never an empty string.
C25_TableOrCleanedOrDefault ==
    pc = "mapped" =>
        /\ InTable => extracted = DASHBOARD_VIS_ID_MAP[text(source)]
        /\ ~InTable =>
              extracted = IF source = <<>> THEN "Unknown"
                          ELSE IF Cleaned = "" THEN "Custom Viz" ELSE Cleaned
        /\ text(source) = "com.ibm.vis.rave2bundlewidgetfoo" => extracted = "Widgetfoo"
        /\ extracted # ""

\* only version tokens: nothing is left of the identifier
C25_Witness ==
    /\ pc = "mapped"
    /\ source = <<"com.ibm.vis.", "rave", "2">>
    /\ ~InTable
    /\ extracted = "Custom Viz"

(***************************************************************************)
(* Further properties of the resolver (SpecResolve).                       *)
(***************************************************************************)
\* C26: the second scan of the resolver (data modules by data sources)
\* never adds a relationship: running both passes leaves exactly the
\* relationships that running the first, index-based pass alone leaves.
C26_SecondScanAddsNothing ==
    [][ stages' = Append(stages, "resolve") =>
          result'.relationships =
              first_pass(result, UsesRels(result),
                         data_sources_by_store_id(result)).relationships ]_vars

\* the second scan had an edge to look at: a data module with a uses edge
\* to a key of the index, next to a data-source object, and the edge the
\* first pass made of it
C26_Witness ==
    /\ pc = "stats"
    /\ \E i, j \in DOMAIN result.objects :
          /\ result.objects[i].object_type = "data_module"
          /\ result.objects[j].object_type = "data_source"
          /\ \E k \in DOMAIN ModuleUses(result, result.objects[i]) :
                LET use_rel == ModuleUses(result, result.objects[i])[k] IN
                /\ use_rel.target_id \in DOMAIN data_sources_by_store_id(result)
                /\ \E c \in DOMAIN result.relationships :
                      /\ result.relationships[c].origin = <<"resolver", 0>>
                      /\ result.relationships[c].source = "useSpec"
                      /\ result.relationships[c].source_id = result.objects[i].object_id
                      /\ result.relationships[c].target_id =
                            data_sources_by_store_id(result)[use_rel.target_id]

Synthesized(rel) == rel.relationship_type = "connects_to" /\ rel.origin = <<"resolver", 0>>

\* C27: every connects_to edge synthesized by the resolver targets the
\* object_id of an object that is present in the Result and whose kind is
\* data_source or data_source_connection.
C27_SynthesizedEdgeTargetsDataSource ==
    \A i \in DOMAIN result.relationships :
        Synthesized(result.relationships[i]) =>
            \E j \in DOMAIN result.objects :
                /\ result.objects[j].object_id = result.relationships[i].target_id
                /\ result.objects[j].object_type \in DataSourceTypes

(***************************************************************************)
(* Properties of parse() about the file system and the statistics (Spec).  *)
(***************************************************************************)
\* C28: parse never deletes the caller-supplied export location: an export
\* directory handed to parse still exists when parse has returned; cleanup
\* removes only the temporary directory made by extracting an archive.
C28_ExportDirectoryKept ==
    (pc = "returned" /\ export.kind = "dir") => ExportDir \in fs

(***************************************************************************)
(* Tab membership (SpecDashboard).                                         *)
(***************************************************************************)
\* the sources of the contains edges _extract_tabs emitted from a tab to
\* the widget
TabsHolding(widget_obj_id) ==
    LET rels == extract_tabs(source.tabs, 1).relationships IN
    {rels[i].source_id : i \in {j \in DOMAIN rels :
                                   /\ rels[j].target_id = widget_obj_id
                                   /\ rels[j].source_id # DashId}}

TabIds ==
    LET objs == extract_tabs(source.tabs, 1).objects IN
    {objs[i].object_id : i \in DOMAIN objs}

\* C29: tab membership computed by the two dashboard passes agrees: for
\* every widget emitted as a visualization, its parent_id is a tab id if
\* and only if _extract_tabs emitted a contains edge from a tab to that
\* widget, and in that case parent_id is the source of one of those edges,
\* tabs without an id, identified by their position, included.
C29_TabMembershipAgrees ==
    pc = "aggregated" =>
        \A i \in DOMAIN extracted.objects :
            LET o == extracted.objects[i] IN
            o.object_type = "visualization" =>
                /\ o.parent_id \in TabIds <=> TabsHolding(o.object_id) # {}
                /\ o.parent_id \in TabIds => o.parent_id \in TabsHolding(o.object_id)

(***************************************************************************)
(* Manifest metadata in the statistics (Spec).                             *)
(***************************************************************************)
ManifestParsed ==
    /\ Ran("manifest")
    /\ \A i \in DOMAIN result.errors :
           result.errors[i].message # "Failed to parse content.xml"

\* C30: calculate_stats leaves the stats entries it does not compute
\* unchanged: the manifest metadata written to stats during manifest parsing
\* (cognos_version, cognos_edition, archive_version) is still present in the
\* stats of the Result returned by a successful parse.
C30_ManifestStatsKept ==
    (pc = "returned" /\ Ran("stats") /\ ~Ran("except") /\ ManifestParsed) =>
        \A k \in DOMAIN ManifestStats :
            /\ k \in DOMAIN result.stats
            /\ result.stats[k] = ManifestStats[k]

====
